---- MODULE Spec2Model ----
(***************************************************************************)
(* Model of the resume renderer of Virtual4087/resume-parser:              *)
(* app/services/document_service.py, class DocumentGenerator.              *)
(*                                                                         *)
(* Python values are tagged records ([t |-> "dict", ...]); a str is a      *)
(* sequence of one-character strings; the document is the sequence of      *)
(* body blocks (paragraphs and tables) python-docx appends to.             *)
(***************************************************************************)
EXTENDS Integers, Sequences, FiniteSets, TLC

VARIABLES
    resume_data,    \* the argument of the call: a decoded value or a str of JSON text
    data,           \* resume_data after the rebinding of line 83 (the decoded value)
    pc,             \* the position of the call inside _generate_document
    doc,            \* the Document being built: NoDoc, or the sequence of its blocks
    exc,            \* the exception the call raised, or NoExc
    result,         \* what create_resume_document_stream returned: NoStream or the stream
    calls,          \* the calls of DocumentGenerator's methods in progress, by caller
    heap,           \* the Document objects the calls created, in order of creation
    files,          \* the files on disk: path -> contents
    generator,      \* the attributes the DocumentGenerator instance holds
    requests,       \* the requests the module-level routes of doc_generator.py serve
    cwd,            \* the files of the server's working directory: name -> contents
    model_calls,    \* the number of messages parse_resume has sent to the model
    raw_json,       \* the text of the model's response, once it has arrived
    parser          \* the call of parse_resume and of the /submit route around it

\* the state of the one call of create_resume_document_stream
render_vars == <<resume_data, data, pc, doc, exc, result>>
\* the state of the calls of the three methods
call_vars == <<calls, heap, files, generator>>
\* the state of the module-level routes
route_vars == <<requests, cwd>>
\* the state of parse_resume
parse_vars == <<model_calls, raw_json, parser>>
vars == <<render_vars, call_vars, route_vars, parse_vars>>

----------------------------------------------------------------------------
(* Bounds of the model *)

\* longest text drawn for a sanitized field (dates, degree, graduation year)
MaxLen == 4
\* longest skill_order drawn
MaxOrderLen == 3
\* most jobs in work_experience
MaxJobs == 2
\* most achievements of a job
MaxAchievements == 2

----------------------------------------------------------------------------
(* Characters and strings *)

\* U+00E2, the first character of a cp1252-decoded UTF-8 dash or apostrophe
ACirc == "U+00E2"
\* U+2013 and U+2014
EnDash == "U+2013"
EmDash == "U+2014"
\* U+25CF, the bullet glyph
Bullet == "U+25CF"

\* the characters str.strip() removes
Whitespace == {" ", "\t", "\n"}

RECURSIVE Replace(_, _, _)
\* str.replace(old, new): every non-overlapping occurrence, left to right
Replace(s, old, new) ==
    IF Len(s) < Len(old) \/ Len(old) = 0 THEN s
    ELSE IF SubSeq(s, 1, Len(old)) = old
         THEN new \o Replace(SubSeq(s, Len(old) + 1, Len(s)), old, new)
         ELSE <<Head(s)>> \o Replace(Tail(s), old, new)

RECURSIVE LStrip(_)
LStrip(s) ==
    IF s # <<>> /\ Head(s) \in Whitespace THEN LStrip(Tail(s)) ELSE s

RECURSIVE RStrip(_)
RStrip(s) ==
    IF s # <<>> /\ s[Len(s)] \in Whitespace THEN RStrip(SubSeq(s, 1, Len(s) - 1)) ELSE s

\* str.strip()
Strip(s) == RStrip(LStrip(s))

\* str.startswith(prefix)
StartsWith(s, prefix) ==
    Len(s) >= Len(prefix) /\ SubSeq(s, 1, Len(prefix)) = prefix

RECURSIVE Join(_, _)
\* sep.join(parts)
Join(sep, parts) ==
    IF parts = <<>> THEN <<>>
    ELSE IF Len(parts) = 1 THEN parts[1]
    ELSE parts[1] \o sep \o Join(sep, Tail(parts))

\* string literals of the source
HTTP == <<"h", "t", "t", "p">>
HTTPS_PREFIX == <<"h", "t", "t", "p", "s", ":", "/", "/">>
MAILTO == <<"m", "a", "i", "l", "t", "o", ":">>
SEPARATOR == <<" ", "|", "|", " ">>
COMMA_SPACE == <<",", " ">>
GRADUATION == <<"G", "r", "a", "d", "u", "a", "t", "i", "o", "n", ":", " ">>

----------------------------------------------------------------------------
(* The three field sanitizations *)

\* the chain of line 282 without its em-dash call
SanitizeDatesNoEmDash(s) ==
    Replace(Replace(Replace(s, <<ACirc>>, <<"-">>), <<EnDash>>, <<"-">>),
            <<" ", " ">>, <<" ">>)

\* the chain of line 282 without its last call
SanitizeDatesNoCollapse(s) ==
    Replace(Replace(Replace(s, <<ACirc>>, <<"-">>), <<EnDash>>, <<"-">>), <<EmDash>>, <<"-">>)

\* line 282: job['dates'].replace(...)
SanitizeDates(s) ==
    Replace(Replace(Replace(Replace(s, <<ACirc>>, <<"-">>), <<EnDash>>, <<"-">>),
                    <<EmDash>>, <<"-">>),
            <<" ", " ">>, <<" ">>)

\* line 321: the three replace calls all name U+00E2
SanitizeDegree(s) ==
    Replace(Replace(Replace(s, <<ACirc>>, <<"'">>), <<ACirc>>, <<"'">>),
            <<ACirc>>, <<"'">>)

\* the chain of line 339 without its last call
SanitizeGraduationYearNoCollapse(s) == Replace(s, <<ACirc>>, <<"-">>)

\* line 339: education['graduation_year'].replace(...)
SanitizeGraduationYear(s) ==
    Replace(Replace(s, <<ACirc>>, <<"-">>), <<" ", " ">>, <<" ">>)

----------------------------------------------------------------------------
(* Python values *)

None == [t |-> "NoneType"]
PyInt(n) == [t |-> "int", n |-> n]
Str(s) == [t |-> "str", s |-> s]
List(items) == [t |-> "list", items |-> items]

\* the keys of a sequence of [k, v] pairs, each once, in order of first insertion
RECURSIVE KeysOf(_)
KeysOf(pairs) ==
    IF pairs = <<>> THEN <<>>
    ELSE LET init == KeysOf(SubSeq(pairs, 1, Len(pairs) - 1))
             k == pairs[Len(pairs)].k
         IN  IF \E i \in 1..Len(init) : init[i] = k THEN init ELSE Append(init, k)

\* a dict built by inserting the pairs in order: a later value replaces an earlier
\* one under the same key, and the key keeps its first position
Dict(pairs) ==
    [t |-> "dict",
     keys |-> KeysOf(pairs),
     val |-> [k \in {pairs[i].k : i \in 1..Len(pairs)} |->
                pairs[CHOOSE i \in 1..Len(pairs) :
                        /\ pairs[i].k = k
                        /\ \A j \in (i + 1)..Len(pairs) : pairs[j].k # k].v]]

KV(k, v) == [k |-> k, v |-> v]

IsDict(v) == v.t = "dict"
HasKey(d, k) == \E i \in 1..Len(d.keys) : d.keys[i] = k

\* the key names of the resume schema
K_contact == <<"c", "o", "n", "t", "a", "c", "t">>
K_name == <<"n", "a", "m", "e">>
K_email == <<"e", "m", "a", "i", "l">>
K_phone == <<"p", "h", "o", "n", "e">>
K_linkedin == <<"l", "i", "n", "k", "e", "d", "i", "n">>
K_title == <<"t", "i", "t", "l", "e">>
K_summary == <<"s", "u", "m", "m", "a", "r", "y">>
K_technical_skills == <<"t", "e", "c", "h", "n", "i", "c", "a", "l", "_", "s", "k", "i", "l", "l", "s">>
K_skill_order == <<"s", "k", "i", "l", "l", "_", "o", "r", "d", "e", "r">>
K_work_experience == <<"w", "o", "r", "k", "_", "e", "x", "p", "e", "r", "i", "e", "n", "c", "e">>
K_education == <<"e", "d", "u", "c", "a", "t", "i", "o", "n">>
K_company == <<"c", "o", "m", "p", "a", "n", "y">>
K_role == <<"r", "o", "l", "e">>
K_location == <<"l", "o", "c", "a", "t", "i", "o", "n">>
K_dates == <<"d", "a", "t", "e", "s">>
K_achievements == <<"a", "c", "h", "i", "e", "v", "e", "m", "e", "n", "t", "s">>
K_institution == <<"i", "n", "s", "t", "i", "t", "u", "t", "i", "o", "n">>
K_degree == <<"d", "e", "g", "r", "e", "e">>
K_graduation_year == <<"g", "r", "a", "d", "u", "a", "t", "i", "o", "n", "_", "y", "e", "a", "r">>

----------------------------------------------------------------------------
(* Exceptions *)

NoExc == [cls |-> "none"]
\* line 85
InvalidJSON == [cls |-> "ValueError", msg |-> "Invalid JSON string"]
\* line 88
MissingContact == [cls |-> "ValueError", msg |-> "Missing or invalid contact information"]
\* d[k] with k not a key of the dict d
KeyError(k) == [cls |-> "KeyError", key |-> k]
\* an operation the operand's type does not support (v[k], k in v, for x in v)
TypeError(v) == [cls |-> "TypeError", on |-> v.t]
\* v.strip(), v.replace() on a value that is no str
AttributeError(v) == [cls |-> "AttributeError", on |-> v.t]

\* the outcome of evaluating an expression: a value, or the exception it raises
Ok(v) == [ok |-> TRUE, v |-> v]
Raise(e) == [ok |-> FALSE, exc |-> e]

\* v[k] for a str key k
Subscript(v, k) ==
    IF IsDict(v)
    THEN IF HasKey(v, k) THEN Ok(v.val[k]) ELSE Raise(KeyError(k))
    ELSE Raise(TypeError(v))

\* sub in s, for two strs
Contains(s, sub) ==
    \E i \in 0..(Len(s) - Len(sub)) : SubSeq(s, i + 1, i + Len(sub)) = sub

\* k in v, for a str key k
In(k, v) ==
    CASE v.t = "dict" -> Ok(HasKey(v, k))
      [] v.t = "list" -> Ok(\E i \in 1..Len(v.items) : v.items[i] = Str(k))
      [] v.t = "str" -> Ok(Contains(v.s, k))
      [] OTHER -> Raise(TypeError(v))

----------------------------------------------------------------------------
(* JSON text.  A str of JSON text is modelled by what a parser sees of it:  *)
(* Malformed, or the syntax tree of a well-formed text.                    *)

Malformed == [j |-> "malformed"]
JNull == [j |-> "null"]
JNumber(n) == [j |-> "number", n |-> n]
JString(s) == [j |-> "string", s |-> s]
JArray(items) == [j |-> "array", items |-> items]
\* an object's members in the order written: a key may be written twice
JObject(members) == [j |-> "object", members |-> members]

\* a str argument holding JSON text
JsonText(tree) == [t |-> "str", json |-> tree]

RECURSIVE json_loads_unordered(_)
\* a decoder that does not keep the order an object's members are written in
json_loads_unordered(tree) ==
    CASE tree.j = "null" -> None
      [] tree.j = "number" -> PyInt(tree.n)
      [] tree.j = "string" -> Str(tree.s)
      [] tree.j = "array" ->
            List([i \in 1..Len(tree.items) |-> json_loads_unordered(tree.items[i])])
      [] tree.j = "object" ->
            Dict([i \in 1..Len(tree.members) |->
                    KV(tree.members[Len(tree.members) + 1 - i].k,
                       json_loads_unordered(tree.members[Len(tree.members) + 1 - i].v))])

RECURSIVE json_loads(_)
\* json.loads on a well-formed text: object -> dict (the last of two equal keys
\* wins), array -> list, string -> str, number -> int, null -> None
json_loads(tree) ==
    CASE tree.j = "null" -> None
      [] tree.j = "number" -> PyInt(tree.n)
      [] tree.j = "string" -> Str(tree.s)
      [] tree.j = "array" ->
            List([i \in 1..Len(tree.items) |-> json_loads(tree.items[i])])
      [] tree.j = "object" ->
            Dict([i \in 1..Len(tree.members) |->
                    KV(tree.members[i].k, json_loads(tree.members[i].v))])

RECURSIVE json_dumps(_)
\* the JSON text a client sends for a decoded value
json_dumps(v) ==
    CASE v.t = "NoneType" -> JNull
      [] v.t = "int" -> JNumber(v.n)
      [] v.t = "str" -> JString(v.s)
      [] v.t = "list" -> JArray([i \in 1..Len(v.items) |-> json_dumps(v.items[i])])
      [] v.t = "dict" ->
            JObject([i \in 1..Len(v.keys) |->
                       KV(v.keys[i], json_dumps(v.val[v.keys[i]]))])

----------------------------------------------------------------------------
(* The document: python-docx's body, a sequence of paragraphs and tables *)

NoDoc == <<[kind |-> "no document"]>>
NoStream == [kind |-> "none"]

Run(text, bold, italic, underline) ==
    [kind |-> "run", text |-> text, bold |-> bold, italic |-> italic,
     underline |-> underline]
BoldRun(text) == Run(text, TRUE, FALSE, FALSE)

Paragraph(style, align, items) ==
    [kind |-> "p", style |-> style, align |-> align, items |-> items]

\* Document.add_paragraph(text, style): a run is added only for a non-empty text
add_paragraph(text, style) ==
    Paragraph(style, "left", IF text = <<>> THEN <<>> ELSE <<Run(text, FALSE, FALSE, FALSE)>>)

\* a paragraph with no run
Blank == Paragraph("Normal", "left", <<>>)
Centered(items) == Paragraph("Normal", "center", items)
\* a paragraph holding one bold run: the section labels
Label(text) == Paragraph("Normal", "left", <<BoldRun(text)>>)

Cell(text, bold, italic, align) ==
    [text |-> text, bold |-> bold, italic |-> italic, align |-> align]
\* a cell no run was added to
EmptyCell == [text |-> <<>>, bold |-> FALSE, italic |-> FALSE, align |-> "left"]

Table(borders, rows) == [kind |-> "table", borders |-> borders, rows |-> rows]

\* the runs of a paragraph (Paragraph.runs): its w:r children, not its hyperlinks
Runs(items) == SelectSeq(items, LAMBDA x : x.kind = "run")

\* the hyperlink element inserted as the paragraph's first child
add_hyperlink_first(items, text, url) ==
    <<[kind |-> "hyperlink", text |-> text, url |-> url,
       bold |-> (Runs(items) # <<>> /\ Runs(items)[Len(Runs(items))].bold)]>> \o items

\* lines 360-403: the hyperlink element is appended to the paragraph
add_hyperlink(items, text, url) ==
    Append(items,
           [kind |-> "hyperlink", text |-> text, url |-> url,
            bold |-> (Runs(items) # <<>> /\ Runs(items)[Len(Runs(items))].bold)])

\* lines 356-358
add_section_separator == Blank

\* the text of the labels and of the skills table's header row
PROFESSIONAL_SUMMARY == <<"Professional Summary:">>
TECHNICAL_SKILLS == <<"Technical Skills:">>
WORK_EXPERIENCE == <<"Work Experience">>
EDUCATION == <<"Education:">>
CATEGORY == <<"Category">>
SKILLS_TOOLS == <<"Skills/Tools">>

\* what a step did: the blocks it appended, and the exception that ended it
Done(blocks) == [exc |-> NoExc, blocks |-> blocks]
Fail(e, blocks) == [exc |-> e, blocks |-> blocks]

----------------------------------------------------------------------------
(* _generate_document, lines 79-229, in the order of its statements *)

\* v.get(k, '').strip(): an absent key read as the empty str
StripFieldWithDefault(v, k) ==
    IF IsDict(v) /\ ~HasKey(v, k) THEN Ok(<<>>)
    ELSE LET x == Subscript(v, k)
         IN  IF ~x.ok THEN x
             ELSE IF x.v.t # "str" THEN Raise(AttributeError(x.v))
             ELSE Ok(Strip(x.v.s))

\* v[k].strip(): KeyError for an absent key, AttributeError for a value that is no str
StripField(v, k) ==
    LET x == Subscript(v, k)
    IN  IF ~x.ok THEN x
        ELSE IF x.v.t # "str" THEN Raise(AttributeError(x.v))
        ELSE Ok(Strip(x.v.s))

\* v[k] passed as a text to add_run or add_paragraph (the inputs drawn hold strs there)
TextField(v, k) ==
    LET x == Subscript(v, k)
    IN  IF ~x.ok THEN x
        ELSE IF x.v.t # "str" THEN Raise(TypeError(x.v))
        ELSE Ok(x.v.s)

\* lines 81-85: a str argument is decoded
Decoded(arg) ==
    IF arg.t = "str"
    THEN IF arg.json = Malformed THEN Raise(InvalidJSON) ELSE Ok(json_loads(arg.json))
    ELSE Ok(arg)

\* the check without its isinstance half
ValidContactKeyOnly(d) ==
    LET has == In(K_contact, d)
    IN  IF ~has.ok THEN has
        ELSE IF ~has.v THEN Raise(MissingContact)
        ELSE Ok(d)

\* lines 87-88: 'contact' not in resume_data or not isinstance(resume_data['contact'], dict)
ValidContact(d) ==
    LET has == In(K_contact, d)
        c == Subscript(d, K_contact)
    IN  IF ~has.ok THEN has
        ELSE IF ~has.v THEN Raise(MissingContact)
        ELSE IF ~c.ok THEN c
        ELSE IF ~IsDict(c.v) THEN Raise(MissingContact)
        ELSE Ok(d)

\* lines 130-135: the LinkedIn link target
LinkedinUrl(linkedin_text) ==
    IF ~StartsWith(linkedin_text, HTTP) THEN HTTPS_PREFIX \o linkedin_text
    ELSE linkedin_text

\* lines 107-149: name, contact line, title, and the blank paragraph after them
Header(d) ==
    LET c == d.val[K_contact]
        name == TextField(c, K_name)
        email == StripField(c, K_email)
        phone == StripField(c, K_phone)
        linkedin == StripField(c, K_linkedin)
        title == TextField(d, K_title)
        p1 == Centered(<<BoldRun(name.v)>>)
        c1 == Append(add_hyperlink(<<>>, email.v, MAILTO \o email.v), BoldRun(SEPARATOR))
        c2 == c1 \o <<BoldRun(phone.v), BoldRun(SEPARATOR)>>
        c3 == add_hyperlink(c2, linkedin.v, LinkedinUrl(linkedin.v))
    IN  IF ~name.ok THEN Fail(name.exc, <<Centered(<<>>)>>)
        ELSE IF ~email.ok THEN Fail(email.exc, <<p1, Centered(<<>>)>>)
        ELSE IF ~phone.ok THEN Fail(phone.exc, <<p1, Centered(c1)>>)
        ELSE IF ~linkedin.ok THEN Fail(linkedin.exc, <<p1, Centered(c2)>>)
        ELSE IF ~title.ok THEN Fail(title.exc, <<p1, Centered(c3), Centered(<<>>)>>)
        ELSE Done(<<p1, Centered(c3),
                    Centered(<<Run(title.v, TRUE, FALSE, TRUE)>>),
                    add_paragraph(<<>>, "Normal")>>)

\* lines 151-155
Summary(d) ==
    LET summary == TextField(d, K_summary)
    IN  IF ~summary.ok THEN Fail(summary.exc, <<Label(PROFESSIONAL_SUMMARY)>>)
        ELSE Done(<<Label(PROFESSIONAL_SUMMARY), add_paragraph(summary.v, "Normal")>>)

\* lines 174-181: the header row of the skills table
SkillsHeaderRow ==
    <<Cell(CATEGORY, TRUE, FALSE, "left"), Cell(SKILLS_TOOLS, TRUE, FALSE, "left")>>

\* the skills joined by a comma with no space after it
SkillsTextCommaOnly(skills) ==
    IF skills.t = "list"
    THEN Join(<<",">>, [i \in 1..Len(skills.items) |-> skills.items[i].s])
    ELSE skills.s

\* line 199: ", ".join(skills) if isinstance(skills, list) else skills
SkillsText(skills) ==
    IF skills.t = "list"
    THEN Join(COMMA_SPACE, [i \in 1..Len(skills.items) |-> skills.items[i].s])
    ELSE skills.s

\* lines 196-203: the row of one category (cell.text = ... always adds a run)
SkillsRow(technical_skills, category) ==
    <<Cell(category, TRUE, FALSE, "left"),
      Cell(SkillsText(technical_skills.val[category]), FALSE, FALSE, "left")>>

\* the order taken from the mapping alone, as create_resume_document of
\* doc_generator.py takes it
SkillOrderIgnored(d) ==
    [i \in 1..Len(d.val[K_technical_skills].keys) |-> Str(d.val[K_technical_skills].keys[i])]

\* resume_data.get('skill_order', []): no fall back to the mapping's keys
SkillOrderNoDefault(d) ==
    IF HasKey(d, K_skill_order) THEN d.val[K_skill_order].items ELSE <<>>

\* line 191: resume_data.get('skill_order', list(resume_data['technical_skills'].keys()))
SkillOrder(d) ==
    IF HasKey(d, K_skill_order)
    THEN d.val[K_skill_order].items
    ELSE [i \in 1..Len(d.val[K_technical_skills].keys) |->
            Str(d.val[K_technical_skills].keys[i])]

RECURSIVE SkillRows(_, _)
\* lines 194-199: one row per entry of skill_order that is a key of the mapping
SkillRows(technical_skills, order) ==
    IF order = <<>> THEN <<>>
    ELSE (IF HasKey(technical_skills, Head(order).s)
          THEN <<SkillsRow(technical_skills, Head(order).s)>>
          ELSE <<>>)
         \o SkillRows(technical_skills, Tail(order))

\* the skills block with the call of line 210 left out
SkillsWithoutSeparator(d) ==
    LET ts == Subscript(d, K_technical_skills)
        heading == Label(TECHNICAL_SKILLS)
        rows == IF IsDict(ts.v) THEN SkillRows(ts.v, SkillOrder(d)) ELSE <<>>
    IN  IF ~ts.ok
        THEN Fail(ts.exc, <<heading, Table("single", <<SkillsHeaderRow>>)>>)
        ELSE Done(<<heading, Table("single", <<SkillsHeaderRow>> \o rows)>>)

\* the skills block without the test of line 189: the keys of a value that is
\* no mapping are asked for, which raises
SkillsRequiringMapping(d) ==
    LET ts == Subscript(d, K_technical_skills)
        heading == Label(TECHNICAL_SKILLS)
    IN  IF ~ts.ok
        THEN Fail(ts.exc, <<heading, Table("single", <<SkillsHeaderRow>>)>>)
        ELSE IF ~IsDict(ts.v)
        THEN Fail(AttributeError(ts.v), <<heading, Table("single", <<SkillsHeaderRow>>)>>)
        ELSE Done(<<heading,
                    Table("single", <<SkillsHeaderRow>> \o SkillRows(ts.v, SkillOrder(d))),
                    add_section_separator>>)

\* lines 157-210: label, skills table, section separator
Skills(d) ==
    LET ts == Subscript(d, K_technical_skills)
        heading == Label(TECHNICAL_SKILLS)
        rows == IF IsDict(ts.v) THEN SkillRows(ts.v, SkillOrder(d)) ELSE <<>>
    IN  IF ~ts.ok
        THEN Fail(ts.exc, <<heading, Table("single", <<SkillsHeaderRow>>)>>)
        ELSE Done(<<heading, Table("single", <<SkillsHeaderRow>> \o rows),
                    add_section_separator>>)

\* v[k].replace(...): KeyError for an absent key, AttributeError for a value that is no str
ReplaceField(v, k) ==
    LET x == Subscript(v, k)
    IN  IF ~x.ok THEN x
        ELSE IF x.v.t # "str" THEN Raise(AttributeError(x.v))
        ELSE Ok(x.v.s)

\* lines 247-297: the borderless two-by-two table of one job
add_work_experience(job) ==
    LET company == TextField(job, K_company)
        role == TextField(job, K_role)
        location == TextField(job, K_location)
        dates == ReplaceField(job, K_dates)
        c00 == Cell(company.v, TRUE, TRUE, "left")
        c10 == Cell(role.v, FALSE, TRUE, "left")
        c01 == Cell(location.v, TRUE, TRUE, "right")
        c11 == Cell(SanitizeDates(dates.v), FALSE, TRUE, "right")
        T(a, b, c, e) == Table("default", <<(<<a, b>>), (<<c, e>>)>>)
    IN  IF ~company.ok THEN Fail(company.exc, <<T(EmptyCell, EmptyCell, EmptyCell, EmptyCell)>>)
        ELSE IF ~role.ok THEN Fail(role.exc, <<T(c00, EmptyCell, EmptyCell, EmptyCell)>>)
        ELSE IF ~location.ok THEN Fail(location.exc, <<T(c00, EmptyCell, c10, EmptyCell)>>)
        ELSE IF ~dates.ok THEN Fail(dates.exc, <<T(c00, c01, c10, EmptyCell)>>)
        ELSE Done(<<Table("none", <<(<<c00, c01>>), (<<c10, c11>>)>>)>>)

\* line 221: achievement.replace(bullet, "").strip()
StripBullet(achievement) == Strip(Replace(achievement, <<Bullet>>, <<>>))

\* lines 220-222: one ListBullet paragraph per achievement (the inputs drawn hold
\* a list of strs there)
Achievements(items) ==
    [i \in 1..Len(items) |-> add_paragraph(StripBullet(items[i].s), "ListBullet")]

\* lines 217-222: one pass of the loop over the jobs
Job(job) ==
    LET table == add_work_experience(job)
        achievements == Subscript(job, K_achievements)
    IN  IF table.exc # NoExc THEN table
        ELSE IF ~achievements.ok THEN Fail(achievements.exc, table.blocks)
        ELSE Done(table.blocks \o Achievements(achievements.v.items))

RECURSIVE Jobs(_)
\* lines 216-222: the loop, which an exception leaves
Jobs(jobs) ==
    IF jobs = <<>> THEN Done(<<>>)
    ELSE LET first == Job(Head(jobs))
             rest == Jobs(Tail(jobs))
         IN  IF first.exc # NoExc THEN first
             ELSE [exc |-> rest.exc, blocks |-> first.blocks \o rest.blocks]

\* lines 212-222: label, then every job
WorkExperience(d) ==
    LET we == Subscript(d, K_work_experience)
        heading == Label(WORK_EXPERIENCE)
        jobs == Jobs(we.v.items)
    IN  IF ~we.ok THEN Fail(we.exc, <<heading>>)
        ELSE IF we.v.t # "list" THEN Fail(TypeError(we.v), <<heading>>)
        ELSE [exc |-> jobs.exc, blocks |-> <<heading>> \o jobs.blocks]

\* lines 299-354: the borderless two-by-two table of the education record
add_education(education) ==
    LET institution == TextField(education, K_institution)
        degree == ReplaceField(education, K_degree)
        location == TextField(education, K_location)
        year == ReplaceField(education, K_graduation_year)
        c00 == Cell(institution.v, TRUE, TRUE, "left")
        c10 == Cell(SanitizeDegree(degree.v), FALSE, TRUE, "left")
        c01 == Cell(location.v, TRUE, TRUE, "right")
        c11 == Cell(GRADUATION \o SanitizeGraduationYear(year.v), FALSE, TRUE, "right")
        T(a, b, c, e) == Table("default", <<(<<a, b>>), (<<c, e>>)>>)
    IN  IF ~institution.ok
        THEN Fail(institution.exc, <<T(EmptyCell, EmptyCell, EmptyCell, EmptyCell)>>)
        ELSE IF ~degree.ok THEN Fail(degree.exc, <<T(c00, EmptyCell, EmptyCell, EmptyCell)>>)
        ELSE IF ~location.ok THEN Fail(location.exc, <<T(c00, EmptyCell, c10, EmptyCell)>>)
        ELSE IF ~year.ok THEN Fail(year.exc, <<T(c00, c01, c10, EmptyCell)>>)
        ELSE Done(<<Table("none", <<(<<c00, c01>>), (<<c10, c11>>)>>)>>)

\* lines 224-227: label, then the education table
Education(d) ==
    LET education == Subscript(d, K_education)
        heading == Label(EDUCATION)
        table == add_education(education.v)
    IN  IF ~education.ok THEN Fail(education.exc, <<heading>>)
        ELSE [exc |-> table.exc, blocks |-> <<heading>> \o table.blocks]

----------------------------------------------------------------------------
(* The inputs drawn *)

\* every sequence over S of length at most n
SeqsUpTo(S, n) == UNION {[1..k -> S] : k \in 0..n}

\* the sequences over S with no element twice: the key orders of a dict over S
DistinctSeqs(S) ==
    {q \in SeqsUpTo(S, Cardinality(S)) : \A i, j \in 1..Len(q) : i # j => q[i] # q[j]}

\* the pairs of `pairs` whose key is in `present`
Only(pairs, present) == SelectSeq(pairs, LAMBDA p : p.k \in present)

T_name == <<"A", "s", "i">>
T_email == <<"a", "@", "b">>
T_phone == <<"5", "5", "5">>
T_linkedin == <<"l", "i", "n", "/", "a">>
T_title == <<"D", "e", "v">>
T_summary == <<"S", "u", "m">>
T_dates == <<"2", "0", EnDash, "2", "1">>
T_degree == <<"B", "S", "c">>
T_year == <<"2", "0", "1", "9">>

ContactPairs(email, phone, linkedin) ==
    <<KV(K_name, Str(T_name)), KV(K_email, email), KV(K_phone, phone),
      KV(K_linkedin, linkedin)>>
TheContact == Dict(ContactPairs(Str(T_email), Str(T_phone), Str(T_linkedin)))

AJob(dates, achievements) ==
    Dict(<<KV(K_company, Str(<<"C", "o">>)), KV(K_location, Str(<<"N", "Y">>)),
           KV(K_role, Str(<<"S", "W", "E">>)), KV(K_dates, Str(dates)),
           KV(K_achievements, List(achievements))>>)
TheJobs == List(<<AJob(T_dates, <<Str(<<Bullet, " ", "L", "e", "d">>)>>)>>)

AnEducation(degree, year) ==
    Dict(<<KV(K_institution, Str(<<"M", "I", "T">>)), KV(K_location, Str(<<"M", "A">>)),
           KV(K_degree, Str(degree)), KV(K_graduation_year, Str(year))>>)
TheEducation == AnEducation(T_degree, T_year)

\* the skill categories, and what each maps to: a list of skills or one str
Categories == {<<"A">>, <<"B">>, <<"C">>}
\* the names a skill_order may list: the categories and one that no mapping holds
OrderNames == Categories \cup {<<"D">>}
SkillsOf(category) ==
    CASE category = <<"A">> -> List(<<Str(<<"x">>), Str(<<"y">>)>>)
      [] category = <<"B">> -> Str(<<"z">>)
      [] OTHER -> List(<<>>)
SkillsDict(keys) == Dict([i \in 1..Len(keys) |-> KV(keys[i], SkillsOf(keys[i]))])
TheSkills == SkillsDict(<<(<<"B">>), (<<"A">>)>>)

\* the members of a resume, in the order the parser writes them
ResumePairs(contact, skills, jobs, education) ==
    <<KV(K_contact, contact), KV(K_title, Str(T_title)), KV(K_summary, Str(T_summary)),
      KV(K_technical_skills, skills), KV(K_work_experience, jobs),
      KV(K_education, education)>>
TheResume == Dict(ResumePairs(TheContact, TheSkills, TheJobs, TheEducation))

TopKeys == {K_contact, K_title, K_summary, K_technical_skills, K_work_experience, K_education}
ContactKeys == {K_name, K_email, K_phone, K_linkedin}

\* contact values: no record, or a record holding some of its four fields, its
\* email a str or None
ContactValues ==
    {None, List(<<>>), Str(<<"x">>)}
    \cup {Dict(Only(ContactPairs(email, Str(T_phone), Str(T_linkedin)), present)) :
            email \in {Str(T_email), None}, present \in SUBSET ContactKeys}

\* records with any of the top-level members absent, any contact value, and a
\* work_experience that is a list or a number
Records ==
    {Dict(Only(ResumePairs(contact, TheSkills, jobs, TheEducation), present)) :
        contact \in ContactValues, jobs \in {TheJobs, PyInt(5)},
        present \in SUBSET TopKeys}

\* decoded values that are no record
NonRecords ==
    {None, PyInt(5), List(<<>>), List(<<Str(K_contact)>>)}

\* strs of JSON text: malformed, scalars, strings, arrays, and records
JsonTexts ==
    {JsonText(tree) :
        tree \in {Malformed, JNull, JNumber(5), JString(<<"x">>), JString(K_contact),
                  JArray(<<>>), json_dumps(TheResume),
                  json_dumps(Dict(Only(ResumePairs(TheContact, TheSkills, TheJobs,
                                                   TheEducation), TopKeys \ {K_contact}))),
                  json_dumps(Dict(Only(ResumePairs(TheContact, TheSkills, TheJobs,
                                                   TheEducation), TopKeys \ {K_title}))),
                  JObject(<<KV(K_contact, json_dumps(TheContact)), KV(K_contact, JNull)>>)}}

\* resumes over every key order of every mapping and every skill_order, given or absent
SkillResumes ==
    {Dict(ResumePairs(TheContact, SkillsDict(keys), TheJobs, TheEducation) \o order) :
        keys \in DistinctSeqs(Categories),
        order \in {<<>>} \cup
                  {<<KV(K_skill_order, List([i \in 1..Len(q) |-> Str(q[i])]))>> :
                      q \in SeqsUpTo(OrderNames, MaxOrderLen)}}

\* resumes whose technical_skills is no mapping
NoMappingResumes ==
    {Dict(ResumePairs(TheContact, skills, TheJobs, TheEducation)) :
        skills \in {List(<<Str(<<"x">>)>>), Str(<<"x">>), None}}

\* the characters the sanitized fields are drawn over
SanitizedAlphabet == {"a", " ", ACirc, EnDash, EmDash}
\* UTF-8 punctuation read as cp1252: an en-dash (E2 80 93) and a right single
\* quotation mark (E2 80 99) arrive as U+00E2, U+20AC and a third character
Euro == "U+20AC"
LeftDoubleQuote == "U+201C"
TradeMark == "U+2122"
MisDecodedTexts ==
    {<<"a", ACirc, Euro, LeftDoubleQuote, "a">>, <<"a", ACirc, Euro, TradeMark, "s">>}
\* resumes with the same text as the job's dates, the degree and the graduation year
SanitizedResumes ==
    {Dict(ResumePairs(TheContact, TheSkills, List(<<AJob(s, <<>>)>>), AnEducation(s, s))) :
        s \in SeqsUpTo(SanitizedAlphabet, MaxLen) \cup MisDecodedTexts}

\* LinkedIn identifiers: with and without padding, with a scheme, with a name that
\* only starts with the letters http, with less than that
LinkedinTexts ==
    {pad1 \o head \o rest \o pad2 :
        pad1 \in {<<>>, <<" ">>}, pad2 \in {<<>>, <<" ">>, <<"\n">>},
        head \in {<<>>, <<"h", "t", "t">>, HTTP, HTTP \o <<":", "/", "/">>, HTTPS_PREFIX},
        rest \in {<<>>, <<"x">>, <<"x", ".", "i", "o">>, <<"l", "i", "n", "/", "a">>}}
EmailTexts == {T_email, <<" ">> \o T_email, T_email \o <<" ">>, <<>>}
PhoneTexts == {T_phone, <<" ">> \o T_phone \o <<"\n">>}
ContactResumes ==
    {Dict(ResumePairs(Dict(ContactPairs(Str(email), Str(phone), Str(linkedin))),
                      TheSkills, TheJobs, TheEducation)) :
        email \in EmailTexts, phone \in PhoneTexts, linkedin \in LinkedinTexts}

\* achievements: with a bullet glyph in front, inside, padded, none
AchievementTexts ==
    {<<Bullet, " ", "L", "e", "d">>, <<"L", "e", "d">>, <<" ", "L", Bullet, "d", " ">>, <<>>}
\* work_experience lists: none, or a first job with any achievements drawn and up to
\* MaxJobs - 1 more jobs after it
JobLists ==
    {List(<<>>)}
    \cup {List(<<AJob(T_dates, [j \in 1..Len(q) |-> Str(q[j])])>>
               \o [i \in 1..more |-> AJob(T_year, <<Str(<<"L", "e", "d">>)>>)]) :
            q \in SeqsUpTo(AchievementTexts, MaxAchievements), more \in 0..(MaxJobs - 1)}
JobResumes ==
    {Dict(ResumePairs(TheContact, TheSkills, jobs, TheEducation)) : jobs \in JobLists}

\* texts that hold what the sanitized fields are repaired for: padding, U+00E2,
\* a dash, two spaces, a bullet glyph
VerbatimTexts ==
    {<<" ", ACirc, EnDash, " ", " ", Bullet, "\n">>, <<"a", EmDash, " ", " ", "a">>}
\* resumes with such a text in every field but the sanitized ones, the email,
\* the phone and the LinkedIn identifier
VerbatimResumes ==
    {Dict(<<KV(K_contact, Dict(<<KV(K_name, Str(t)), KV(K_email, Str(T_email)),
                                 KV(K_phone, Str(T_phone)),
                                 KV(K_linkedin, Str(T_linkedin))>>)),
            KV(K_title, Str(t)), KV(K_summary, Str(t)),
            KV(K_technical_skills,
               Dict(<<KV(t, List(<<Str(t), Str(t)>>)), KV(<<"B">>, Str(t))>>)),
            KV(K_work_experience,
               List(<<Dict(<<KV(K_company, Str(t)), KV(K_location, Str(t)),
                             KV(K_role, Str(t)), KV(K_dates, Str(T_dates)),
                             KV(K_achievements, List(<<>>))>>)>>)),
            KV(K_education,
               Dict(<<KV(K_institution, Str(t)), KV(K_location, Str(t)),
                      KV(K_degree, Str(T_degree)),
                      KV(K_graduation_year, Str(T_year))>>))>>) :
        t \in VerbatimTexts}

\* the arguments _generate_document is called with
Arguments ==
    Records \cup NonRecords \cup JsonTexts \cup SkillResumes \cup NoMappingResumes
    \cup SanitizedResumes \cup ContactResumes \cup JobResumes \cup VerbatimResumes

----------------------------------------------------------------------------
(* create_resume_document_stream, lines 22-31 *)

Init ==
    /\ resume_data \in Arguments
    /\ data = resume_data
    /\ pc = "start"
    /\ doc = NoDoc
    /\ exc = NoExc
    /\ result = NoStream
    /\ calls = <<>> /\ heap = <<>> /\ files = {} /\ generator = {}
    /\ requests = <<>> /\ cwd = {}
    /\ model_calls = 0 /\ raw_json = <<>> /\ parser = <<>>

\* lines 81-91: decode a str, check the contact record, create the Document
Validate ==
    /\ pc = "start"
    /\ LET decoded == Decoded(resume_data)
           valid == IF decoded.ok THEN ValidContact(decoded.v) ELSE decoded
       IN  /\ data' = IF decoded.ok THEN decoded.v ELSE data
           /\ IF valid.ok
              THEN /\ doc' = <<>>
                   /\ pc' = "header"
                   /\ exc' = exc
              ELSE /\ doc' = doc
                   /\ pc' = "raised"
                   /\ exc' = valid.exc
    /\ UNCHANGED <<resume_data, result, call_vars, route_vars, parse_vars>>

\* a group of statements that append to the document or raise
Step(at, next, did) ==
    /\ pc = at
    /\ doc' = doc \o did.blocks
    /\ exc' = did.exc
    /\ pc' = IF did.exc = NoExc THEN next ELSE "raised"
    /\ UNCHANGED <<resume_data, data, result, call_vars, route_vars, parse_vars>>

AddHeader == Step("header", "summary", Header(data))
AddSummary == Step("summary", "skills", Summary(data))
AddSkills == Step("skills", "work", Skills(data))
AddWorkExperience == Step("work", "education", WorkExperience(data))
AddEducation == Step("education", "save", Education(data))

\* the stream doc.save writes: the document's body under the fixed font and margins
Saved(body) ==
    [kind |-> "docx", font |-> "Helvetica Neue", size |-> 10, margins |-> "0.5in",
     body |-> body]

\* lines 27-31: save the document to a stream and return it
Save ==
    /\ pc = "save"
    /\ result' = Saved(doc)
    /\ pc' = "returned"
    /\ UNCHANGED <<resume_data, data, doc, exc, call_vars, route_vars, parse_vars>>

Next ==
    \/ Validate
    \/ AddHeader
    \/ AddSummary
    \/ AddSkills
    \/ AddWorkExperience
    \/ AddEducation
    \/ Save

Spec == Init /\ [][Next]_vars

----------------------------------------------------------------------------
(* The three methods of DocumentGenerator, called by two callers at once:  *)
(* create_resume_document_stream, create_resume_document, create_pdf_stream *)

\* a sequence that goes on after an exception and forgets it
ThenIgnoring(first, rest) ==
    [rest EXCEPT !.blocks = first.blocks \o @]
\* a step's outcome followed by another's: an exception ends the sequence
Then(first, rest) ==
    IF first.exc # NoExc THEN first
    ELSE [rest EXCEPT !.blocks = first.blocks \o @]

\* lines 107-227: everything _generate_document appends to the new Document
Body(d) ==
    Then(Header(d), Then(Summary(d), Then(Skills(d),
         Then(WorkExperience(d), Education(d)))))

\* an existing Document handed out again
DocumentShared(objects) == 1
\* line 91, Document(): a new object, unlike every object created before
Document(objects) == Len(objects) + 1

Callers == {"first", "second"}
Methods == {"create_resume_document_stream", "create_resume_document", "create_pdf_stream"}

\* a call that has not returned
NoReturn == [kind |-> "no return"]
\* the file name a caller passes to create_resume_document: each caller its own
FileNameOf(c) == [dir |-> "cwd", name |-> c, ext |-> ".docx"]
\* the names NamedTemporaryFile draws from: it takes one that no file carries
TempNames == {"tmp1", "tmp2"}
TempPath(name, ext) == [dir |-> "tmp", name |-> name, ext |-> ext]

File(path, contents) == [path |-> path, contents |-> contents]
Exists(fs, path) == \E f \in fs : f.path = path
Contents(fs, path) == (CHOOSE f \in fs : f.path = path).contents
Removed(fs, path) == {f \in fs : f.path # path}
Written(fs, path, contents) == Removed(fs, path) \cup {File(path, contents)}

\* what docx2pdf's convert writes for a document, and the stream of its bytes
Pdf(docx) == [kind |-> "pdf", of |-> docx]

\* TheResume without its title, and without its contact
NoTitleResume ==
    Dict(Only(ResumePairs(TheContact, TheSkills, TheJobs, TheEducation),
              TopKeys \ {K_title}))
NoContactResume ==
    Dict(Only(ResumePairs(TheContact, TheSkills, TheJobs, TheEducation),
              TopKeys \ {K_contact}))
\* a valid resume other than TheResume: two jobs, a bullet glyph inside an achievement
OtherResume ==
    Dict(ResumePairs(TheContact, SkillsDict(<<(<<"A">>), (<<"C">>)>>),
                     List(<<AJob(T_dates, <<Str(<<" ", "L", Bullet, "d", " ">>)>>),
                            AJob(T_year, <<>>)>>),
                     TheEducation))
\* what the callers pass: valid resumes decoded and as JSON text, a resume whose
\* title is absent (the name and the contact line are built before the error),
\* one without contact, malformed JSON text, None
CallArguments ==
    {TheResume, JsonText(json_dumps(TheResume)), OtherResume, NoTitleResume,
     NoContactResume, JsonText(Malformed), None}

NewCall(method, arg) ==
    [method |-> method, resume_data |-> arg, data |-> arg, pc |-> "start", doc |-> 0,
     docx_stream |-> NoReturn, temp |-> "", converter |-> "not used", exc |-> NoExc,
     ret |-> NoReturn]

InitCalls ==
    /\ calls \in [Callers -> {NewCall(m, a) : m \in Methods, a \in CallArguments}]
    /\ heap = <<>>
    /\ files = {}
    /\ generator = {}
    /\ resume_data = None /\ data = None /\ pc = "no call" /\ doc = NoDoc
    /\ exc = NoExc /\ result = NoStream
    /\ requests = <<>> /\ cwd = {}
    /\ model_calls = 0 /\ raw_json = <<>> /\ parser = <<>>

\* lines 81-91: decode a str, check the contact record, create the Document
Begin(c) ==
    /\ calls[c].pc = "start"
    /\ \E decoded \in {Decoded(calls[c].resume_data)} :
          LET valid == IF decoded.ok THEN ValidContact(decoded.v) ELSE decoded
          IN  IF valid.ok
              THEN /\ heap' = Append(heap, <<>>)
                   /\ calls' = [calls EXCEPT ![c] = [@ EXCEPT !.data = decoded.v,
                                                              !.doc = Document(heap),
                                                              !.pc = "build"]]
              ELSE /\ heap' = heap
                   /\ calls' = [calls EXCEPT ![c] =
                                  [@ EXCEPT !.data = IF decoded.ok THEN decoded.v ELSE @,
                                            !.exc = valid.exc,
                                            !.pc = "raised"]]
    /\ UNCHANGED <<files, generator, render_vars, route_vars, parse_vars>>

\* a loop that stores each stripped achievement back into the list
AchievementsStrippedInPlace(items) ==
    [i \in 1..Len(items) |-> Str(StripBullet(items[i].s))]
\* lines 220-221: the loop assigns its own variable achievement, never an item
\* of the list, so the list holds after the loop what it held before
AchievementsAfterLoop(items) == items

\* the resume record once lines 216-222 have run over its jobs
AfterWorkExperience(d) ==
    LET jobs == d.val[K_work_experience].items
        after(job) == [job EXCEPT !.val[K_achievements].items = AchievementsAfterLoop(@)]
    IN  [d EXCEPT !.val[K_work_experience].items = [i \in 1..Len(jobs) |-> after(jobs[i])]]

\* lines 93-229: append to the call's Document until the end or an exception,
\* which no method catches.  A record passed by the caller is the object the
\* statements read (a str is decoded into an object of the call's own).
Build(c) ==
    /\ calls[c].pc = "build"
    /\ \E body \in {Body(calls[c].data)} :
          LET ran == body.exc = NoExc
          IN  /\ heap' = [heap EXCEPT ![calls[c].doc] = @ \o body.blocks]
              /\ calls' = [calls EXCEPT ![c] =
                             [@ EXCEPT !.exc = body.exc,
                                       !.pc = IF ran THEN "save" ELSE "raised",
                                       !.data = IF ran THEN AfterWorkExperience(@) ELSE @,
                                       !.resume_data =
                                           IF ran /\ @.t = "dict"
                                           THEN AfterWorkExperience(@) ELSE @]]
    /\ UNCHANGED <<files, generator, render_vars, route_vars, parse_vars>>

\* create_resume_document_stream, lines 27-31: save to a stream and return it
ReturnStream(c) ==
    /\ calls[c].pc = "save"
    /\ calls[c].method = "create_resume_document_stream"
    /\ calls' = [calls EXCEPT ![c] = [@ EXCEPT !.ret = Saved(heap[calls[c].doc]),
                                               !.pc = "returned"]]
    /\ UNCHANGED <<heap, files, generator, render_vars, route_vars, parse_vars>>

\* create_resume_document, lines 18-20: save under the file name and return the name
SaveFile(c) ==
    /\ calls[c].pc = "save"
    /\ calls[c].method = "create_resume_document"
    /\ files' = Written(files, FileNameOf(c), Saved(heap[calls[c].doc]))
    /\ calls' = [calls EXCEPT ![c] = [@ EXCEPT !.ret = FileNameOf(c), !.pc = "returned"]]
    /\ UNCHANGED <<heap, generator, render_vars, route_vars, parse_vars>>

\* create_pdf_stream, line 40: the DOCX of create_resume_document_stream, kept as
\* docx_stream; an exception of that call has left create_pdf_stream before
DocxStream(c) ==
    /\ calls[c].pc = "save"
    /\ calls[c].method = "create_pdf_stream"
    /\ calls' = [calls EXCEPT ![c] = [@ EXCEPT !.docx_stream = Saved(heap[calls[c].doc]),
                                               !.pc = "import"]]
    /\ UNCHANGED <<heap, files, generator, render_vars, route_vars, parse_vars>>

\* lines 43 and 71-73: import docx2pdf; without the module, print and return None
Import(c) ==
    /\ calls[c].pc = "import"
    /\ \E installed \in BOOLEAN :
          calls' = [calls EXCEPT ![c] =
                      IF installed
                      THEN [@ EXCEPT !.pc = "write"]
                      ELSE [@ EXCEPT !.converter = "absent", !.ret = None,
                                     !.pc = "returned"]]
    /\ UNCHANGED <<heap, files, generator, render_vars, route_vars, parse_vars>>

\* lines 48-52: write the DOCX to a new temporary file, whose name no file carries
WriteTemp(c) ==
    /\ calls[c].pc = "write"
    /\ \E name \in TempNames :
          /\ ~Exists(files, TempPath(name, ".docx"))
          /\ files' = Written(files, TempPath(name, ".docx"), calls[c].docx_stream)
          /\ calls' = [calls EXCEPT ![c] = [@ EXCEPT !.temp = name, !.pc = "convert"]]
    /\ UNCHANGED <<heap, generator, render_vars, route_vars, parse_vars>>

\* a conversion whose error leaves create_pdf_stream
ConvertPropagating(c) ==
    /\ calls[c].pc = "convert"
    /\ LET docx == TempPath(calls[c].temp, ".docx")
           pdf == TempPath(calls[c].temp, ".pdf")
       IN  \E converted \in BOOLEAN :
              IF converted
              THEN /\ files' = Written(files, pdf, Pdf(Contents(files, docx)))
                   /\ calls' = [calls EXCEPT ![c] = [@ EXCEPT !.converter = "converted",
                                                              !.pc = "read"]]
              ELSE /\ files' = files
                   /\ calls' = [calls EXCEPT ![c] =
                                  [@ EXCEPT !.converter = "failed",
                                            !.exc = [cls |-> "Exception", of |-> "convert"],
                                            !.pc = "raised"]]
    /\ UNCHANGED <<heap, generator, render_vars, route_vars, parse_vars>>

\* lines 55 and 74-76: convert the temporary DOCX; when the conversion raises,
\* print and return None, leaving the temporary file in place
Convert(c) ==
    /\ calls[c].pc = "convert"
    /\ LET docx == TempPath(calls[c].temp, ".docx")
           pdf == TempPath(calls[c].temp, ".pdf")
       IN  \E converted \in BOOLEAN :
              IF converted
              THEN /\ files' = Written(files, pdf, Pdf(Contents(files, docx)))
                   /\ calls' = [calls EXCEPT ![c] = [@ EXCEPT !.converter = "converted",
                                                              !.pc = "read"]]
              ELSE /\ files' = files
                   /\ calls' = [calls EXCEPT ![c] = [@ EXCEPT !.converter = "failed",
                                                              !.ret = None,
                                                              !.pc = "returned"]]
    /\ UNCHANGED <<heap, generator, render_vars, route_vars, parse_vars>>

\* lines 58-69 and 74-76: read the PDF, remove both temporary files, return
\* the PDF's stream; when the read raises, print and return None, leaving both
\* temporary files in place
ReadPdf(c) ==
    /\ calls[c].pc = "read"
    /\ LET docx == TempPath(calls[c].temp, ".docx")
           pdf == TempPath(calls[c].temp, ".pdf")
       IN  \E read \in BOOLEAN :
              IF read
              THEN /\ files' = Removed(Removed(files, docx), pdf)
                   /\ calls' = [calls EXCEPT ![c] = [@ EXCEPT !.ret = Contents(files, pdf),
                                                              !.pc = "returned"]]
              ELSE /\ files' = files
                   /\ calls' = [calls EXCEPT ![c] = [@ EXCEPT !.converter = "unread",
                                                              !.ret = None,
                                                              !.pc = "returned"]]
    /\ UNCHANGED <<heap, generator, render_vars, route_vars, parse_vars>>

NextCalls ==
    \E c \in Callers :
        \/ Begin(c)
        \/ Build(c)
        \/ ReturnStream(c)
        \/ SaveFile(c)
        \/ DocxStream(c)
        \/ Import(c)
        \/ WriteTemp(c)
        \/ Convert(c)
        \/ ReadPdf(c)

SpecCalls == InitCalls /\ [][NextCalls]_vars

\* the valid resumes rendered decoded and as JSON text: every key order of the
\* mapping with skill_order absent and given, every list of achievements, texts
\* with non-ASCII characters
RoundTripValues ==
    {Dict(ResumePairs(TheContact, SkillsDict(keys), TheJobs, TheEducation) \o order) :
        keys \in DistinctSeqs(Categories),
        order \in {<<>>, <<KV(K_skill_order, List(<<Str(<<"B">>), Str(<<"D">>)>>))>>}}
    \cup JobResumes
    \cup {Dict(ResumePairs(TheContact, TheSkills, List(<<AJob(s, <<>>)>>), AnEducation(s, s))) :
            s \in MisDecodedTexts \cup {<<"a", EmDash, " ", " ">>}}

\* one caller passes a valid resume, the other the JSON text of the same resume
InitRoundTrip ==
    /\ \E v \in RoundTripValues :
          calls = [c \in Callers |->
                     NewCall("create_resume_document_stream",
                             IF c = "first" THEN v ELSE JsonText(json_dumps(v)))]
    /\ heap = <<>>
    /\ files = {}
    /\ generator = {}
    /\ resume_data = None /\ data = None /\ pc = "no call" /\ doc = NoDoc
    /\ exc = NoExc /\ result = NoStream
    /\ requests = <<>> /\ cwd = {}
    /\ model_calls = 0 /\ raw_json = <<>> /\ parser = <<>>

NextRoundTrip ==
    \E c \in Callers :
        \/ Begin(c)
        \/ Build(c)
        \/ ReturnStream(c)

SpecRoundTrip == InitRoundTrip /\ [][NextRoundTrip]_vars

----------------------------------------------------------------------------
(* The module-level generator, doc_generator.py: the routes /generate,     *)
(* /generate/pdf and /download/<filename>, serving two requests at once    *)
(* over the files of the working directory                                  *)

\* a record without one of its keys
WithoutKey(d, k) ==
    [t |-> "dict", keys |-> SelectSeq(d.keys, LAMBDA x : x # k),
     val |-> [x \in DOMAIN d.val \ {k} |-> d.val[x]]]

\* a record with an empty skill_order
WithEmptyOrder(d) ==
    Dict([i \in 1..Len(d.keys) |-> KV(d.keys[i], d.val[d.keys[i]])]
         \o <<KV(K_skill_order, List(<<>>))>>)

\* the module-level function with the loop of lines 447-462 left out
create_resume_document_without_rows(arg) ==
    LET decoded == Decoded(arg)
        valid == IF decoded.ok THEN ValidContact(decoded.v) ELSE decoded
    IN  IF ~valid.ok THEN Fail(valid.exc, <<>>)
        ELSE Body(WithEmptyOrder(decoded.v))

\* doc_generator.py lines 339-486, create_resume_document up to doc.save: the
\* same statements as _generate_document, but for the rows of the skills
\* table, which follow technical_skills.items() whatever skill_order says
create_resume_document(arg) ==
    LET decoded == Decoded(arg)
        valid == IF decoded.ok THEN ValidContact(decoded.v) ELSE decoded
    IN  IF ~valid.ok THEN Fail(valid.exc, <<>>)
        ELSE Body(WithoutKey(decoded.v, K_skill_order))

Requesters == {"one", "two"}
Routes == {"/generate", "/generate/pdf"}

\* a valid resume under another contact name
BoResume ==
    Dict(ResumePairs(Dict(<<KV(K_name, Str(<<"B", "o">>)), KV(K_email, Str(T_email)),
                            KV(K_phone, Str(T_phone)), KV(K_linkedin, Str(T_linkedin))>>),
                     TheSkills, TheJobs, TheEducation))
\* the resumes posted: two different ones under the name Asi, one under the name
\* Bo, one under the name Asi with no title
RouteResumes == {TheResume, OtherResume, BoResume, NoTitleResume}

\* f"temp_{resume_data['contact']['name']}.docx" and f"temp_{final_name}.pdf"
TempFileName(resume, ext) ==
    [dir |-> "cwd", name |-> <<"t", "e", "m", "p", "_">> \o resume.val[K_contact].val[K_name].s,
     ext |-> ext]

NoResponse == [status |-> "no response"]
Success(filename) == [status |-> "success", filename |-> filename]
Error(message) == [status |-> "error", message |-> message]
Message(text) == [cls |-> "message", text |-> text]
NoDownload == [kind |-> "no download"]

NewRequest(route, resume, converter) ==
    [route |-> route, resume_data |-> resume, converter |-> converter, pc |-> "start",
     response |-> NoResponse, download |-> NoDownload]

\* each request with its route, its resume and what docx2pdf does for it: it is
\* not installed, its conversion raises, or it converts
InitRoutes ==
    /\ requests \in [Requesters ->
                       {NewRequest(route, resume, converter) :
                           route \in Routes, resume \in RouteResumes,
                           converter \in {"absent", "fails", "converts"}}]
    /\ cwd = {}
    /\ calls = <<>> /\ heap = <<>> /\ files = {} /\ generator = {}
    /\ model_calls = 0 /\ raw_json = <<>> /\ parser = <<>>
    /\ resume_data = None /\ data = None /\ pc = "no call" /\ doc = NoDoc
    /\ exc = NoExc /\ result = NoStream

Respond(r, response, next) ==
    requests' = [requests EXCEPT ![r] = [@ EXCEPT !.response = response, !.pc = next]]

\* doc_generator.py lines 42-69, generate_document: render to temp_<name>.docx and
\* answer with the file name, or with the error
generate_document(r) ==
    /\ requests[r].pc = "start"
    /\ requests[r].route = "/generate"
    /\ \E rendered \in {create_resume_document(requests[r].resume_data)} :
          LET filename == TempFileName(requests[r].resume_data, ".docx")
          IN  IF rendered.exc = NoExc
              THEN /\ cwd' = Written(cwd, filename, Saved(rendered.blocks))
                   /\ Respond(r, Success(filename), "download")
              ELSE /\ cwd' = cwd
                   /\ Respond(r, Error(rendered.exc), "done")
    /\ UNCHANGED <<render_vars, call_vars, parse_vars>>

\* doc_generator.py lines 71-98, generate_pdf: without docx2pdf answer with the
\* error; else render to temp_<name>.docx
generate_pdf(r) ==
    /\ requests[r].pc = "start"
    /\ requests[r].route = "/generate/pdf"
    /\ IF requests[r].converter = "absent"
       THEN /\ cwd' = cwd
            /\ Respond(r, Error(Message("PDF conversion requires docx2pdf module")), "done")
       ELSE \E rendered \in {create_resume_document(requests[r].resume_data)} :
               LET filename == TempFileName(requests[r].resume_data, ".docx")
               IN  IF rendered.exc = NoExc
                   THEN /\ cwd' = Written(cwd, filename, Saved(rendered.blocks))
                        /\ requests' = [requests EXCEPT ![r] = [@ EXCEPT !.pc = "convert"]]
                   ELSE /\ cwd' = cwd
                        /\ Respond(r, Error(rendered.exc), "done")
    /\ UNCHANGED <<render_vars, call_vars, parse_vars>>

\* doc_generator.py lines 106-110 and 117-129: convert temp_<name>.docx to
\* temp_<name>.pdf; when that raises (the conversion fails, the DOCX is gone),
\* remove the DOCX if it is there and answer with the error
convert(r) ==
    /\ requests[r].pc = "convert"
    /\ LET docx == TempFileName(requests[r].resume_data, ".docx")
           pdf == TempFileName(requests[r].resume_data, ".pdf")
       IN  IF requests[r].converter = "converts" /\ Exists(cwd, docx)
           THEN /\ cwd' = Written(cwd, pdf, Pdf(Contents(cwd, docx)))
                /\ requests' = [requests EXCEPT ![r] = [@ EXCEPT !.pc = "remove"]]
           ELSE /\ cwd' = Removed(cwd, docx)
                /\ Respond(r, Error(Message("Failed to convert to PDF")), "done")
    /\ UNCHANGED <<render_vars, call_vars, parse_vars>>

\* doc_generator.py lines 112-115: delete the temporary DOCX if it is there
remove_docx(r) ==
    /\ requests[r].pc = "remove"
    /\ cwd' = Removed(cwd, TempFileName(requests[r].resume_data, ".docx"))
    /\ requests' = [requests EXCEPT ![r] = [@ EXCEPT !.pc = "check"]]
    /\ UNCHANGED <<render_vars, call_vars, parse_vars>>

\* doc_generator.py lines 131-144: answer with the PDF's name if the PDF is there
check_pdf(r) ==
    /\ requests[r].pc = "check"
    /\ LET pdf == TempFileName(requests[r].resume_data, ".pdf")
       IN  IF Exists(cwd, pdf) THEN Respond(r, Success(pdf), "download")
           ELSE Respond(r, Error(Message("Failed to create PDF")), "done")
    /\ UNCHANGED <<cwd, render_vars, call_vars, parse_vars>>

\* doc_generator.py lines 148-153 and 167-168, download_file: the client asks for
\* the file it was told of and is sent it, or the error when it is not there
send_file(r) ==
    /\ requests[r].pc = "download"
    /\ LET filename == requests[r].response.filename
       IN  requests' = [requests EXCEPT ![r] =
                          [@ EXCEPT !.download = IF Exists(cwd, filename)
                                                 THEN Contents(cwd, filename)
                                                 ELSE Error(Message("No such file")),
                                    !.pc = IF Exists(cwd, filename) THEN "cleanup"
                                           ELSE "done"]]
    /\ UNCHANGED <<cwd, render_vars, call_vars, parse_vars>>

\* doc_generator.py lines 156-164, cleanup: once sent, the temp_ file is deleted
\* if it is there
cleanup(r) ==
    /\ requests[r].pc = "cleanup"
    /\ cwd' = Removed(cwd, requests[r].response.filename)
    /\ requests' = [requests EXCEPT ![r] = [@ EXCEPT !.pc = "done"]]
    /\ UNCHANGED <<render_vars, call_vars, parse_vars>>

NextRoutes ==
    \E r \in Requesters :
        \/ generate_document(r)
        \/ generate_pdf(r)
        \/ convert(r)
        \/ remove_docx(r)
        \/ check_pdf(r)
        \/ send_file(r)
        \/ cleanup(r)

SpecRoutes == InitRoutes /\ [][NextRoutes]_vars

----------------------------------------------------------------------------
(* parse_resume of app/services/parser_service.py and the /submit route     *)
(* around it.  The text of a response is a sequence of characters, with a   *)
(* run of letters written as one word and a markdown fence as one mark.     *)

\* the value of an expression whose argument is evaluated once
Force(F(_), v) == CHOOSE r \in {F(x) : x \in {v}} : TRUE

\* an en-dash in UTF-8 is E2 80 93: as Latin-1, U+00E2 and two C1 controls
C1Controls == <<"U+0080", "U+0093">>
\* [\x00-\x1F\x7F-\x9F]
ControlCharacters == {"\n", "\t", "U+0001", "U+0080", "U+0093"}

UnicodeDecodeError == [cls |-> "UnicodeDecodeError"]
JSONDecodeError == [cls |-> "JSONDecodeError"]

\* the marks of line 81: a code fence with and without its language, a table rule
FenceJson == "fence json"
Fence == "fence"
Rule == "+---"
\* line 81: re.sub of the three marks and of the bullet glyph by ''
RemoveMarkdown(text) ==
    SelectSeq(text, LAMBDA u : u \notin {FenceJson, Fence, Rule, Bullet})

\* the character an escape sequence stands for; an unknown one is kept as written
Escaped(ch) ==
    CASE ch = "\"" -> <<"\"">>
      [] ch = "\\" -> <<"\\">>
      [] ch = "n" -> <<"\n">>
      [] ch = "1" -> <<"U+0001">>
      [] OTHER -> <<"\\", ch>>

RECURSIVE Flatten(_, _, _)
\* parts[lo] to parts[hi], one after the other
Flatten(parts, lo, hi) ==
    IF lo > hi THEN <<>>
    ELSE IF lo = hi THEN parts[lo]
    ELSE Flatten(parts, lo, (lo + hi) \div 2) \o Flatten(parts, (lo + hi) \div 2 + 1, hi)
\* the text made of what each character of text stands for
Each(text, For(_)) ==
    Force(LAMBDA parts : Flatten(parts, 1, Len(parts)), [i \in 1..Len(text) |-> For(text[i])])

\* the number of backslashes in a row that end just before position i
BackslashesBefore(text, i) ==
    CHOOSE k \in 0..(i - 1) :
        /\ \A j \in 1..k : text[i - j] = "\\"
        /\ k = i - 1 \/ text[i - k - 1] # "\\"

\* line 84: text.encode('utf-8').decode('unicode_escape'): the escape sequences
\* are decoded, the bytes of a character outside ASCII are read as Latin-1, and
\* a backslash that ends the text raises
unicode_escape(text) ==
    LET Unescaped(t) ==
            LET escaped == [i \in 1..Len(t) |-> BackslashesBefore(t, i) % 2 = 1]
                At(i) == IF escaped[i] THEN <<>>
                         ELSE IF t[i] = EnDash THEN <<ACirc>> \o C1Controls
                         ELSE IF t[i] # "\\" THEN <<t[i]>>
                         ELSE Escaped(t[i + 1])
            IN  IF t # <<>> /\ t[Len(t)] = "\\" /\ ~escaped[Len(t)]
                THEN Raise(UnicodeDecodeError)
                ELSE Ok(Force(LAMBDA parts : Flatten(parts, 1, Len(parts)),
                              [i \in 1..Len(t) |-> At(i)]))
    IN  Force(Unescaped, text)

\* line 85: re.sub(r'[\x00-\x1F\x7F-\x9F]', ' ', text)
ControlsToSpaces(text) ==
    [i \in 1..Len(text) |-> IF text[i] \in ControlCharacters THEN " " ELSE text[i]]

\* \s*[]}] matches at the front of text
ClosesAfterSpaces(text) ==
    \E i \in 1..Len(text) :
        /\ text[i] \in {"]", "}"}
        /\ \A j \in 1..(i - 1) : text[j] \in Whitespace

\* line 88: re.sub(r',(\s*[]}])', r'\1', text)
RemoveTrailingCommas(text) ==
    Each([i \in 1..Len(text) |-> i],
         LAMBDA i : IF text[i] = "," /\ ClosesAfterSpaces(SubSeq(text, i + 1, Len(text)))
                    THEN <<>> ELSE <<text[i]>>)

\* text.count(ch)
Count(text, ch) == Len(SelectSeq(text, LAMBDA u : u = ch))

\* lines 91-92: one more '{' than '}' gets a '}' appended
EnsureRoot(text) ==
    IF Count(text, "{") - Count(text, "}") = 1 THEN Append(text, "}") ELSE text

\* clean_json_response, lines 78-94
clean_json_response(text) ==
    LET Cleaned(escaped) ==
            IF ~escaped.ok THEN escaped
            ELSE Force(LAMBDA t : Ok(Strip(EnsureRoot(RemoveTrailingCommas(t)))),
                       ControlsToSpaces(escaped.v))
    IN  Force(Cleaned, unicode_escape(RemoveMarkdown(text)))

\* the outcome of parsing a value at the front of a text: the value and the text
\* after it, or no parse
NoParse == [ok |-> FALSE]
ParsedAs(v, rest) == [ok |-> TRUE, v |-> v, rest |-> rest]

RECURSIVE ScanString(_, _)
\* a JSON string from after its opening quote to its closing quote: a control
\* character in it, and an escape other than of a quote, a backslash or n, are
\* no JSON
ScanString(text, out) ==
    IF text = <<>> THEN NoParse
    ELSE IF Head(text) = "\"" THEN ParsedAs(Str(out), Tail(text))
    ELSE IF Head(text) \in ControlCharacters THEN NoParse
    ELSE IF Head(text) # "\\" THEN ScanString(Tail(text), Append(out, Head(text)))
    ELSE IF Len(text) >= 2 /\ text[2] \in {"\"", "\\"}
         THEN ScanString(SubSeq(text, 3, Len(text)), Append(out, text[2]))
    ELSE IF Len(text) >= 2 /\ text[2] = "n"
         THEN ScanString(SubSeq(text, 3, Len(text)), Append(out, "\n"))
    ELSE NoParse

RECURSIVE ParseValue(_)
RECURSIVE ParseMembers(_, _)
RECURSIVE ParseItems(_, _)

\* the members of a JSON object from its first key to its closing brace
ParseMembers(text, pairs) ==
    LET AfterValue(key, value) ==
            LET End(t) ==
                    IF t = <<>> THEN NoParse
                    ELSE IF Head(t) = "}"
                         THEN ParsedAs(Dict(Append(pairs, KV(key.v.s, value.v))), Tail(t))
                    ELSE IF Head(t) = ","
                         THEN ParseMembers(Tail(t), Append(pairs, KV(key.v.s, value.v)))
                    ELSE NoParse
            IN  IF ~value.ok THEN NoParse ELSE Force(End, LStrip(value.rest))
        AfterKey(key) ==
            LET Colon(t) ==
                    IF t = <<>> \/ Head(t) # ":" THEN NoParse
                    ELSE Force(LAMBDA value : AfterValue(key, value), ParseValue(Tail(t)))
            IN  IF ~key.ok THEN NoParse ELSE Force(Colon, LStrip(key.rest))
        Member(t) ==
            IF t = <<>> \/ Head(t) # "\"" THEN NoParse
            ELSE Force(AfterKey, ScanString(Tail(t), <<>>))
    IN  Force(Member, LStrip(text))

\* the items of a JSON array from its first item to its closing bracket
ParseItems(text, items) ==
    LET AfterItem(item) ==
            LET End(t) ==
                    IF t = <<>> THEN NoParse
                    ELSE IF Head(t) = "]" THEN ParsedAs(List(Append(items, item.v)), Tail(t))
                    ELSE IF Head(t) = "," THEN ParseItems(Tail(t), Append(items, item.v))
                    ELSE NoParse
            IN  IF ~item.ok THEN NoParse ELSE Force(End, LStrip(item.rest))
    IN  Force(AfterItem, ParseValue(text))

\* a JSON value at the front of a text, after whitespace
ParseValue(text) ==
    LET Value(t) ==
            IF t = <<>> THEN NoParse
            ELSE CASE Head(t) = "{" ->
                        LET Inside(u) ==
                                IF u # <<>> /\ Head(u) = "}"
                                THEN ParsedAs(Dict(<<>>), Tail(u))
                                ELSE ParseMembers(u, <<>>)
                        IN  Force(Inside, LStrip(Tail(t)))
                   [] Head(t) = "[" ->
                        LET Inside(u) ==
                                IF u # <<>> /\ Head(u) = "]"
                                THEN ParsedAs(List(<<>>), Tail(u))
                                ELSE ParseItems(u, <<>>)
                        IN  Force(Inside, LStrip(Tail(t)))
                   [] Head(t) = "\"" -> ScanString(Tail(t), <<>>)
                   [] Head(t) = "1" -> ParsedAs(PyInt(1), Tail(t))
                   [] Head(t) = "null" -> ParsedAs(None, Tail(t))
                   [] OTHER -> NoParse
    IN  Force(Value, LStrip(text))

\* json.loads(text) of lines 126 and 144: the value of a text that is one JSON
\* value and whitespace, JSONDecodeError for any other text
loads(text) ==
    Force(LAMBDA r : IF r.ok /\ LStrip(r.rest) = <<>> THEN Ok(r.v) ELSE Raise(JSONDecodeError),
          ParseValue(text))

\* line 129: required_sections
required_sections ==
    <<"contact", "summary", "technical_skills", "work_experience", "education">>

\* the text of a member of a JSON object, and of an object of members
MemberText(name, value) == <<"\"", name, "\"", ":", " ">> \o value
ObjectText(members) == <<"{">> \o Join(<<",", " ">>, members) \o <<"}">>
StringText(s) == <<"\"">> \o s \o <<"\"">>

\* what a response holds under a section
SectionText(name) ==
    CASE name = "technical_skills" -> ObjectText(<<MemberText("A", StringText(<<"x">>))>>)
      [] name = "work_experience" ->
            <<"[">> \o ObjectText(<<MemberText("company", StringText(<<"Acme">>))>>) \o <<"]">>
      [] OTHER -> StringText(<<"x">>)

\* the sections a response holds: all five, all but one, none
SectionSets ==
    {1..5, {}} \cup {(1..5) \ {i} : i \in 1..5}
SectionMembers(present) ==
    LET names == SelectSeq(required_sections,
                           LAMBDA n : \E i \in present : required_sections[i] = n)
    IN  [i \in 1..Len(names) |-> MemberText(names[i], SectionText(names[i]))]

\* a first member whose string holds what the cleaning is for: a raw newline,
\* an escaped newline, an en-dash, an escaped quote
Notes ==
    {<<>>} \cup
    {<<MemberText("note", StringText(s))>> :
        s \in {<<"x", "\n", "y">>, <<"x", "\\", "n", "y">>, <<"x", EnDash, "y">>,
               <<"x", "\\", "\"", "y">>}}

\* what a response does to its object: nothing, a fence around it, a comma
\* before its closing brace, no closing brace, a backslash after it
Plain(text) == text
Fenced(text) == <<FenceJson, "\n">> \o text \o <<"\n", Fence>>
TrailingComma(text) == SubSeq(text, 1, Len(text) - 1) \o <<",", "\n", "}">>
Unclosed(text) == SubSeq(text, 1, Len(text) - 1)
TrailingBackslash(text) == Append(text, "\\")

ObjectResponses ==
    UNION {LET text == ObjectText(note \o SectionMembers(present))
           IN  {Plain(text), Fenced(text), TrailingComma(text), Unclosed(text),
                TrailingBackslash(text)} :
             note \in Notes, present \in SectionSets}

\* a response cut off inside the company of its first job
CutInCompany ==
    <<"{">> \o MemberText("work_experience", <<"[", "{">>)
    \o <<"\"", "company", "\"", ":", " ", "\"", "Ac">>

\* responses that are no object: the names of the sections as a list and as one
\* string, a list around the resume, a number, null, nothing
OtherResponses ==
    {<<"[">> \o Join(<<",", " ">>, [i \in 1..5 |-> StringText(<<required_sections[i]>>)])
            \o <<"]">>,
     StringText(Join(<<" ">>, [i \in 1..5 |-> <<required_sections[i]>>])),
     <<"[">> \o ObjectText(SectionMembers(1..5)) \o <<"]">>,
     <<"1">>, <<"null">>, <<>>, CutInCompany}

\* the texts the model answers with
Responses == ObjectResponses \cup OtherResponses

\* a local name of parse_resume that is not bound yet
Unbound == [t |-> "unbound"]

\* bool(v) of the values a response decodes to
Truthy(v) ==
    CASE v.t = "NoneType" -> FALSE
      [] v.t = "int" -> v.n # 0
      [] v.t = "str" -> v.s # <<>>
      [] v.t = "list" -> v.items # <<>>
      [] v.t = "dict" -> v.keys # <<>>

InitParse ==
    /\ model_calls = 0
    /\ raw_json = <<>>
    /\ parser = [pc |-> "start", cleaned_json |-> Unbound, parsed |-> Unbound,
                 handler |-> "none", ret |-> NoReturn, response |-> NoResponse]
    /\ requests = <<>> /\ cwd = {}
    /\ calls = <<>> /\ heap = <<>> /\ files = {} /\ generator = {}
    /\ resume_data = None /\ data = None /\ pc = "no call" /\ doc = NoDoc
    /\ exc = NoExc /\ result = NoStream

\* parse_resume returns v from the handler named
Return(v, handler) ==
    parser' = [parser EXCEPT !.ret = v, !.handler = handler, !.pc = "returned"]

\* lines 111-122: one message to the model; its response arrives, or the call
\* raises and line 150 turns that into None
send_message ==
    /\ parser.pc = "start"
    /\ model_calls' = model_calls + 1
    /\ \/ \E response \in Responses :
             /\ raw_json' = response
             /\ parser' = [parser EXCEPT !.pc = "clean"]
       \/ /\ raw_json' = raw_json
          /\ Return(None, "Exception")
    /\ UNCHANGED <<render_vars, call_vars, route_vars>>

\* line 123: cleaned_json = self.clean_json_response(raw_json)
clean ==
    /\ parser.pc = "clean"
    /\ \E cleaned \in {clean_json_response(raw_json)} :
          IF cleaned.ok
          THEN parser' = [parser EXCEPT !.cleaned_json = cleaned.v, !.pc = "loads"]
          ELSE Return(None, "Exception")
    /\ UNCHANGED <<model_calls, raw_json, render_vars, call_vars, route_vars>>

\* line 126: parsed = json.loads(cleaned_json), or on to the handler of line 137
decode ==
    /\ parser.pc = "loads"
    /\ \E decoded \in {loads(parser.cleaned_json)} :
          IF decoded.ok
          THEN parser' = [parser EXCEPT !.parsed = decoded.v, !.pc = "validate"]
          ELSE parser' = [parser EXCEPT !.handler = "JSONDecodeError", !.pc = "repair"]
    /\ UNCHANGED <<model_calls, raw_json, render_vars, call_vars, route_vars>>

\* lines 129-135: 'section not in parsed' for each section in turn: a value
\* that has no 'in' raises TypeError and a missing section ValueError, both
\* caught at line 150; otherwise parsed is returned
validate ==
    /\ parser.pc = "validate"
    /\ LET found == [i \in 1..Len(required_sections) |->
                        In(<<required_sections[i]>>, parser.parsed)]
       IN  IF \A i \in 1..Len(found) : found[i].ok /\ found[i].v
           THEN Return(parser.parsed, "none")
           ELSE Return(None, "Exception")
    /\ UNCHANGED <<model_calls, raw_json, render_vars, call_vars, route_vars>>

\* line 142: '"company": "' in cleaned_json and not cleaned_json.count('"') % 2 == 0
OpenCompany(text) ==
    /\ Contains(text, <<"\"", "company", "\"", ":", " ", "\"">>)
    /\ Count(text, "\"") % 2 # 0

\* lines 141-143: newlines escaped, and the quote of an open company closed
Repaired(text) ==
    Force(LAMBDA escaped : IF OpenCompany(escaped) THEN Append(escaped, "\"") ELSE escaped,
          Each(text, LAMBDA ch : IF ch = "\n" THEN <<"\\", "n">> ELSE <<ch>>))

\* lines 139-149: decode the repaired text and return the value as it is, or
\* None when that fails too
repair ==
    /\ parser.pc = "repair"
    /\ \E decoded \in {loads(Repaired(parser.cleaned_json))} :
          IF decoded.ok
          THEN parser' = [parser EXCEPT !.parsed = decoded.v, !.ret = decoded.v,
                                        !.pc = "returned"]
          ELSE Return(None, "JSONDecodeError")
    /\ UNCHANGED <<model_calls, raw_json, render_vars, call_vars, route_vars>>

\* main_routes.py lines 29-44: the /submit route after parse_resume returned:
\* the keys of technical_skills for a value that is true, an error otherwise
\* and when reading the keys raises
submit ==
    /\ parser.pc = "returned"
    /\ LET parsed_resume == parser.ret
           technical_skills == Subscript(parsed_resume, <<"technical_skills">>)
       IN  parser' =
             [parser EXCEPT
                !.pc = "responded",
                !.response =
                    IF ~Truthy(parsed_resume)
                    THEN Error(Message("Failed to parse resume."))
                    ELSE IF ~technical_skills.ok THEN Error(technical_skills.exc)
                    ELSE IF ~IsDict(technical_skills.v)
                         THEN Error(AttributeError(technical_skills.v))
                    ELSE [status |-> "success", data |-> parsed_resume,
                          skill_order |-> technical_skills.v.keys]]
    /\ UNCHANGED <<model_calls, raw_json, render_vars, call_vars, route_vars>>

NextParse ==
    \/ send_message
    \/ clean
    \/ decode
    \/ validate
    \/ repair
    \/ submit

SpecParse == InitParse /\ [][NextParse]_vars

----------------------------------------------------------------------------
(* The two generators on one input: create_resume_document of               *)
(* DocumentGenerator, called by "first", and create_resume_document of      *)
(* doc_generator.py, called by the /generate route for request "one"        *)

\* the resumes both are given: every mapping under every skill_order, given or
\* absent, technical_skills that is no mapping, a resume without title
GeneratorArguments == SkillResumes \cup NoMappingResumes \cup {NoTitleResume}

InitGenerators ==
    /\ \E arg \in GeneratorArguments :
          /\ calls = [c \in {"first"} |-> NewCall("create_resume_document", arg)]
          /\ requests = [r \in {"one"} |-> NewRequest("/generate", arg, "absent")]
    /\ heap = <<>> /\ files = {} /\ generator = {}
    /\ cwd = {}
    /\ model_calls = 0 /\ raw_json = <<>> /\ parser = <<>>
    /\ resume_data = None /\ data = None /\ pc = "no call" /\ doc = NoDoc
    /\ exc = NoExc /\ result = NoStream

NextGenerators ==
    \/ Begin("first")
    \/ Build("first")
    \/ SaveFile("first")
    \/ generate_document("one")

SpecGenerators == InitGenerators /\ [][NextGenerators]_vars

----------------------------------------------------------------------------
(* The /download/<filename> route of app/routes/main_routes.py (the same    *)
(* statements as that of doc_generator.py), serving the requests of two     *)
(* clients at once over the files of the working directory                  *)

TEMP_PREFIX == <<"t", "e", "m", "p", "_">>
\* the file of the working directory a name of the URL stands for
InCwd(name) == [dir |-> "cwd", name |-> name, ext |-> ".docx"]

\* the names asked for: a temporary file and a file that is none, each one that
\* is there and one that is not
NamesThere == {TEMP_PREFIX \o <<"A">>, <<"k", "e", "e", "p">>}
NamesAskedFor == NamesThere \cup {TEMP_PREFIX \o <<"B">>, <<"g", "o", "n", "e">>}

\* a client between two requests
Idle == [pc |-> "idle", filename |-> <<>>, response |-> NoResponse]

InitDownload ==
    /\ requests = [r \in Requesters |-> Idle]
    /\ cwd = {File(InCwd(name), Saved(<<Label(name)>>)) : name \in NamesThere}
    /\ calls = <<>> /\ heap = <<>> /\ files = {} /\ generator = {}
    /\ model_calls = 0 /\ raw_json = <<>> /\ parser = <<>>
    /\ resume_data = None /\ data = None /\ pc = "no call" /\ doc = NoDoc
    /\ exc = NoExc /\ result = NoStream

\* the cleanup that deletes whatever was sent
ToBeCleanedWhateverItsName(fs, filename) == Exists(fs, InCwd(filename))

\* line 116: filename.startswith('temp_') and os.path.exists(filename)
ToBeCleaned(fs, filename) ==
    StartsWith(filename, TEMP_PREFIX) /\ Exists(fs, InCwd(filename))

\* lines 108-110 and 123-125: send_file opens the file and the response that
\* carries it is returned with cleanup registered; when the file is not there
\* send_file raises and the error is answered, with nothing registered
download_file(r) ==
    /\ requests[r].pc = "idle"
    /\ \E filename \in NamesAskedFor :
          requests' = [requests EXCEPT ![r] =
                         IF Exists(cwd, InCwd(filename))
                         THEN [pc |-> "sending", filename |-> filename,
                               response |-> Contents(cwd, InCwd(filename))]
                         ELSE [pc |-> "idle", filename |-> filename,
                               response |-> Error(Message("No such file"))]]
    /\ UNCHANGED <<cwd, render_vars, call_vars, parse_vars>>

\* lines 113-116: the response is closed and cleanup runs its test
call_on_close(r) ==
    /\ requests[r].pc = "sending"
    /\ requests' = [requests EXCEPT ![r] =
                      [@ EXCEPT !.pc = IF ToBeCleaned(cwd, requests[r].filename)
                                       THEN "remove" ELSE "idle"]]
    /\ UNCHANGED <<cwd, render_vars, call_vars, parse_vars>>

\* lines 117-120: os.remove(filename); when another cleanup has removed the file
\* since the test, it raises, which is printed
os_remove(r) ==
    /\ requests[r].pc = "remove"
    /\ cwd' = Removed(cwd, InCwd(requests[r].filename))
    /\ requests' = [requests EXCEPT ![r] = [@ EXCEPT !.pc = "idle"]]
    /\ UNCHANGED <<render_vars, call_vars, parse_vars>>

NextDownload ==
    \E r \in Requesters :
        \/ download_file(r)
        \/ call_on_close(r)
        \/ os_remove(r)

SpecDownload == InitDownload /\ [][NextDownload]_vars

----------------------------------------------------------------------------
(* What the claims read of a state *)

\* the call has built the skills block: the label, the table and the separator
SkillsBuilt == pc \in {"work", "education", "save", "returned"}

\* the skills table: the eighth block of the document
SkillsTable == doc[8]
\* the category names of the data rows of the skills table, in row order
DataRowNames ==
    [i \in 1..(Len(SkillsTable.rows) - 1) |-> SkillsTable.rows[i + 1][1].text]

\* technical_skills is a mapping
HasMapping ==
    /\ IsDict(data)
    /\ HasKey(data, K_technical_skills)
    /\ IsDict(data.val[K_technical_skills])
\* the names skill_order lists, when it is given
GivenOrder ==
    [i \in 1..Len(data.val[K_skill_order].items) |-> data.val[K_skill_order].items[i].s]
MappingKeys == data.val[K_technical_skills].keys

----------------------------------------------------------------------------
(* C1: with technical_skills a mapping and skill_order given, the data rows  *)
(* of the skills table are exactly the entries of skill_order that are keys *)
(* of the mapping, in skill_order's order: a name that is no key gives no    *)
(* row and no error, and a key that skill_order does not list gives no row. *)
C1_RowsFollowSkillOrder ==
    (SkillsBuilt /\ HasMapping /\ HasKey(data, K_skill_order)) =>
        /\ exc = NoExc
        /\ DataRowNames =
             SelectSeq(GivenOrder,
                       LAMBDA c : \E i \in 1..Len(MappingKeys) : MappingKeys[i] = c)

\* the mapping {B, A, C} rendered under skill_order [A, D, B]: rows A then B
C1_Witness ==
    /\ pc = "returned"
    /\ HasMapping
    /\ HasKey(data, K_skill_order)
    /\ MappingKeys = <<(<<"B">>), (<<"A">>), (<<"C">>)>>
    /\ GivenOrder = <<(<<"A">>), (<<"D">>), (<<"B">>)>>
    /\ DataRowNames = <<(<<"A">>), (<<"B">>)>>

(* C2: with skill_order absent, the skills table has one data row per key   *)
(* of technical_skills, in the mapping's own key order, none omitted and    *)
(* none repeated.                                                           *)
C2_RowsFollowMappingKeys ==
    (SkillsBuilt /\ HasMapping /\ ~HasKey(data, K_skill_order)) =>
        /\ DataRowNames = MappingKeys
        /\ \A i, j \in 1..Len(DataRowNames) : i # j => DataRowNames[i] # DataRowNames[j]

\* the mapping {C, A, B} rendered with no skill_order: rows C, A, B
C2_Witness ==
    /\ pc = "returned"
    /\ HasMapping
    /\ ~HasKey(data, K_skill_order)
    /\ DataRowNames = <<(<<"C">>), (<<"A">>), (<<"B">>)>>

----------------------------------------------------------------------------
(* C3: the top-level blocks of a rendered document, in order *)

\* what a block is, read off the block alone
Kind(b) ==
    CASE b.kind = "table" -> IF b.borders = "single" THEN "bordered table" ELSE "layout table"
      [] b.kind = "p" /\ b.style = "ListBullet" -> "bullet"
      [] b.kind = "p" /\ b.items = <<>> -> "blank"
      [] b.kind = "p" /\ b.align = "center" /\ Len(b.items) = 5 -> "contact line"
      [] b.kind = "p" /\ b.align = "center" /\ b.items[1].underline -> "title"
      [] b.kind = "p" /\ b.align = "center" -> "name"
      [] b = Label(PROFESSIONAL_SUMMARY) -> "Professional Summary:"
      [] b = Label(TECHNICAL_SKILLS) -> "Technical Skills:"
      [] b = Label(WORK_EXPERIENCE) -> "Work Experience"
      [] b = Label(EDUCATION) -> "Education:"
      [] OTHER -> "text"
Kinds(blocks) == [i \in 1..Len(blocks) |-> Kind(blocks[i])]

RECURSIVE JobKinds(_)
\* per job, in the order of work_experience: its table, then one paragraph per achievement
JobKinds(jobs) ==
    IF jobs = <<>> THEN <<>>
    ELSE <<"layout table">>
         \o [i \in 1..Len(Head(jobs).val[K_achievements].items) |-> "bullet"]
         \o JobKinds(Tail(jobs))

HeaderBlock == <<"name", "contact line", "title">>
SummaryBlock == <<"Professional Summary:", "text">>
SkillsBlock == <<"Technical Skills:", "bordered table">>
WorkBlock == <<"Work Experience">> \o JobKinds(data.val[K_work_experience].items)
EducationBlock == <<"Education:", "layout table">>

(* C3 as claimed: header block, summary block, skills block, exactly one    *)
(* blank separator paragraph, work experience block, education block, with *)
(* nothing else between them.                                               *)
C3_BlocksAsClaimed ==
    pc = "returned" =>
        Kinds(doc) = HeaderBlock \o SummaryBlock \o SkillsBlock \o <<"blank">>
                     \o WorkBlock \o EducationBlock

(* C3 as amended: the same blocks in the same order, with one more blank    *)
(* paragraph between the header block and the summary block (line 149).     *)
C3_BlocksInFixedOrder ==
    pc = "returned" =>
        Kinds(doc) = HeaderBlock \o <<"blank">> \o SummaryBlock \o SkillsBlock
                     \o <<"blank">> \o WorkBlock \o EducationBlock

\* a document of two jobs, the first with two achievements
C3_Witness ==
    /\ pc = "returned"
    /\ Len(data.val[K_work_experience].items) = 2
    /\ Len(data.val[K_work_experience].items[1].val[K_achievements].items) = 2
    /\ Kinds(doc) = <<"name", "contact line", "title", "blank", "Professional Summary:",
                      "text", "Technical Skills:", "bordered table", "blank",
                      "Work Experience", "layout table", "bullet", "bullet",
                      "layout table", "bullet", "Education:", "layout table">>

----------------------------------------------------------------------------
(* C4, C5, C6: the failures *)

\* the decoded value is a record whose contact is absent or no record
RecordWithoutContact ==
    /\ IsDict(data)
    /\ HasKey(data, K_contact) => ~IsDict(data.val[K_contact])

(* C4: a decoded record with no 'contact' key, or whose 'contact' is no       *)
(* record, fails with 'Missing or invalid contact information' before any   *)
(* document content is built, whatever else the record holds.               *)
C4_SchemaErrorBeforeContent ==
    (pc # "start" /\ RecordWithoutContact) =>
        /\ pc = "raised"
        /\ exc = MissingContact
        /\ doc = NoDoc
        /\ result = NoStream

\* a record whose contact is a list and whose title and education are absent
C4_Witness ==
    /\ pc = "raised"
    /\ exc = MissingContact
    /\ IsDict(data)
    /\ HasKey(data, K_contact)
    /\ data.val[K_contact].t = "list"
    /\ ~HasKey(data, K_title)
    /\ ~HasKey(data, K_education)
    /\ doc = NoDoc

\* what made the call fail, read off the argument and the decoded value
Cause ==
    IF resume_data.t = "str" /\ resume_data.json = Malformed THEN "decode"
    ELSE IF ~(IsDict(data) /\ HasKey(data, K_contact) /\ IsDict(data.val[K_contact]))
         THEN "schema"
    ELSE "field"

\* the kind of error the caller receives
ErrorKind(e) ==
    CASE e = InvalidJSON -> "decode"
      [] e = MissingContact -> "schema"
      [] OTHER -> "field"

(* C5: the three input failures reach the caller as three distinct error    *)
(* kinds: malformed JSON as a decode error, a decoded value that is no       *)
(* record with a valid contact (a JSON scalar or null included) as a schema *)
(* error, an absent or wrongly shaped field as a field error.               *)
C5_ErrorKindTellsCause ==
    pc = "raised" => ErrorKind(exc) = Cause

----------------------------------------------------------------------------
(* C6: absent required fields *)

\* the members the renderer reads, in the order it reads them, and the step reading each
ReadInOrder ==
    <<[of |-> "contact", k |-> K_name, step |-> 1],
      [of |-> "contact", k |-> K_email, step |-> 1],
      [of |-> "contact", k |-> K_phone, step |-> 1],
      [of |-> "contact", k |-> K_linkedin, step |-> 1],
      [of |-> "resume", k |-> K_title, step |-> 1],
      [of |-> "resume", k |-> K_summary, step |-> 2],
      [of |-> "resume", k |-> K_technical_skills, step |-> 3],
      [of |-> "resume", k |-> K_work_experience, step |-> 4],
      [of |-> "resume", k |-> K_education, step |-> 5]>>

\* the required fields the claim lists
Required == {f \in {ReadInOrder[i] : i \in 1..Len(ReadInOrder)} : f.k # K_technical_skills}

Absent(f) ==
    IF f.of = "contact" THEN ~HasKey(data.val[K_contact], f.k) ELSE ~HasKey(data, f.k)

\* the first member read that is absent
FirstAbsent ==
    ReadInOrder[CHOOSE i \in 1..Len(ReadInOrder) :
                  Absent(ReadInOrder[i]) /\ \A j \in 1..(i - 1) : ~Absent(ReadInOrder[j])]

\* the position of the call, as the number of the step it is about to run
StepNumber ==
    CASE pc = "header" -> 1 [] pc = "summary" -> 2 [] pc = "skills" -> 3
      [] pc = "work" -> 4 [] pc = "education" -> 5 [] pc = "save" -> 6
      [] pc = "returned" -> 7

\* contact is a record and a required field is absent
RecordLackingField ==
    /\ pc # "start"
    /\ IsDict(data) /\ HasKey(data, K_contact) /\ IsDict(data.val[K_contact])
    /\ \E f \in Required : Absent(f)

\* the members present hold what the schema says: a str email, a list of jobs
PresentWellShaped ==
    /\ HasKey(data.val[K_contact], K_email) => data.val[K_contact].val[K_email].t = "str"
    /\ HasKey(data, K_work_experience) => data.val[K_work_experience].t = "list"

\* the path of a field: contact.email for the email of the contact record
Path(f) == IF f.of = "contact" THEN K_contact \o <<".">> \o f.k ELSE f.k

----------------------------------------------------------------------------
(* C7, C8: the contact line *)

\* the call has built the header block
HeaderBuilt == pc \in {"summary", "skills", "work", "education", "save", "returned"}
\* the elements of the contact line, the second paragraph of the document
ContactLine == doc[2].items
\* the fields as stored in the contact record
Stored(k) == data.val[K_contact].val[k].s

\* s starts with an http scheme
HasHttpScheme(s) ==
    StartsWith(s, HTTP \o <<":", "/", "/">>) \/ StartsWith(s, HTTPS_PREFIX)

(* C7: the LinkedIn hyperlink displays the stored identifier verbatim, and  *)
(* links to the identifier itself when it starts with an http scheme and to *)
(* 'https://' followed by the identifier otherwise.                         *)
C7_LinkedinVerbatimAndLinked ==
    HeaderBuilt =>
        /\ ContactLine[5].text = Stored(K_linkedin)
        /\ ContactLine[5].url =
             IF HasHttpScheme(Stored(K_linkedin)) THEN Stored(K_linkedin)
             ELSE HTTPS_PREFIX \o Stored(K_linkedin)

(* C8: the contact line is one paragraph holding, in this order and with    *)
(* nothing else: the email (read with .strip()) as a hyperlink to 'mailto:' *)
(* followed by it, a bold ' || ', the phone number (read with .strip()) in  *)
(* bold, a bold ' || ', and the LinkedIn identifier as a hyperlink.         *)
C8_ContactLineElements ==
    HeaderBuilt =>
        /\ doc[2].kind = "p"
        /\ [i \in 1..Len(ContactLine) |-> ContactLine[i].kind]
             = <<"hyperlink", "run", "run", "run", "hyperlink">>
        /\ ContactLine[1].text = Strip(Stored(K_email))
        /\ ContactLine[1].url = MAILTO \o Strip(Stored(K_email))
        /\ ContactLine[2] = Run(SEPARATOR, TRUE, FALSE, FALSE)
        /\ ContactLine[3] = Run(Strip(Stored(K_phone)), TRUE, FALSE, FALSE)
        /\ ContactLine[4] = Run(SEPARATOR, TRUE, FALSE, FALSE)
        /\ ContactLine[5].text = Strip(Stored(K_linkedin))

\* a@b, 555 and lin/a rendered: link, separator, phone, separator, link
C8_Witness ==
    /\ pc = "returned"
    /\ Stored(K_email) = <<" ", "a", "@", "b">>
    /\ Stored(K_linkedin) = <<"l", "i", "n", "/", "a">>
    /\ ContactLine[1].url = <<"m", "a", "i", "l", "t", "o", ":", "a", "@", "b">>
    /\ ContactLine[3].text = <<"5", "5", "5">>
    /\ ContactLine[5].url = <<"h", "t", "t", "p", "s", ":", "/", "/", "l", "i", "n", "/", "a">>

----------------------------------------------------------------------------
(* C9, C10: the sanitized fields *)

\* the borderless tables of a returned document: one per job, then the education table
LayoutTables == SelectSeq(doc, LAMBDA b : b.kind = "table" /\ b.borders = "none")
JobsOf == data.val[K_work_experience].items
\* what was stored and what was rendered
StoredDates(i) == JobsOf[i].val[K_dates].s
RenderedDates(i) == LayoutTables[i].rows[2][2].text
StoredDegree == data.val[K_education].val[K_degree].s
RenderedDegree == LayoutTables[Len(LayoutTables)].rows[2][1].text
StoredYear == data.val[K_education].val[K_graduation_year].s
RenderedYear == LayoutTables[Len(LayoutTables)].rows[2][2].text

DashArtifacts == {EnDash, EmDash, ACirc}
NoSpaces(s) == SelectSeq(s, LAMBDA c : c # " ")
HyphenForDash(s) == [i \in 1..Len(s) |-> IF s[i] \in DashArtifacts THEN "-" ELSE s[i]]

C10_OneSanitizerForAllFields ==
    pc = "returned" =>
        \A i \in 1..Len(JobsOf) :
            /\ StoredDates(i) = StoredDegree => RenderedDates(i) = RenderedDegree
            /\ StoredDates(i) = StoredYear => RenderedYear = GRADUATION \o RenderedDates(i)

----------------------------------------------------------------------------
(* C11: text without artifacts *)

\* position i of s starts a mis-decoded byte sequence: U+00E2 followed by U+20AC
MisDecodedAt(s, i) == s[i] = ACirc /\ i < Len(s) /\ s[i + 1] = Euro
\* s holds no en-dash, no em-dash, no mis-decoded sequence and no two spaces in a row
ArtifactFree(s) ==
    /\ \A i \in 1..Len(s) : s[i] \notin {EnDash, EmDash} /\ ~MisDecodedAt(s, i)
    /\ \A i \in 1..(Len(s) - 1) : ~(s[i] = " " /\ s[i + 1] = " ")

(* C11: a dates, degree or graduation-year text with no en-dash, no em-dash, *)
(* no mis-decoded byte sequence and no two consecutive spaces is rendered   *)
(* exactly as stored; a letter U+00E2 that starts no mis-decoded sequence   *)
(* is left unchanged.                                                       *)
C11_ArtifactFreeTextUnchanged ==
    pc = "returned" =>
        /\ \A i \in 1..Len(JobsOf) :
              ArtifactFree(StoredDates(i)) => RenderedDates(i) = StoredDates(i)
        /\ ArtifactFree(StoredDegree) => RenderedDegree = StoredDegree
        /\ ArtifactFree(StoredYear) => RenderedYear = GRADUATION \o StoredYear

----------------------------------------------------------------------------
(* C12: the achievements *)

\* the text of a paragraph: that of its run, or empty when it holds none
TextOf(p) == IF p.items = <<>> THEN <<>> ELSE p.items[1].text
\* the blocks of a returned document between the 'Work Experience' label, its
\* tenth block, and the 'Education:' label: tables by their company, paragraphs
\* by their style and text
WorkItems ==
    [i \in 1..(Len(doc) - 12) |->
        LET b == doc[10 + i]
        IN  IF b.kind = "table" THEN [kind |-> "table", company |-> b.rows[1][1].text]
            ELSE [kind |-> b.style, text |-> TextOf(b)]]

\* s with a bullet glyph at its front stripped and surrounding whitespace trimmed
LeadingBulletStripped(s) ==
    LET t == Strip(s)
    IN  IF t # <<>> /\ Head(t) = Bullet THEN Strip(Tail(t)) ELSE t

RECURSIVE ItemsAsClaimed(_)
\* per job, in the order of work_experience: its table, then its achievements in
\* list order, each with the leading glyph stripped
ItemsAsClaimed(jobs) ==
    IF jobs = <<>> THEN <<>>
    ELSE LET job == Head(jobs)
             achievements == job.val[K_achievements].items
         IN  <<[kind |-> "table", company |-> job.val[K_company].s]>>
             \o [j \in 1..Len(achievements) |->
                   [kind |-> "ListBullet", text |-> LeadingBulletStripped(achievements[j].s)]]
             \o ItemsAsClaimed(Tail(jobs))

(* C12: each achievement renders as one bulleted paragraph whose text is    *)
(* the achievement with a leading bullet glyph stripped and surrounding     *)
(* whitespace trimmed, the rest of the text unchanged; the bullets follow   *)
(* their job's table in the order of the achievements list, and the jobs    *)
(* follow the order of work_experience.                                     *)
C12_AchievementsAsBullets ==
    pc = "returned" => WorkItems = ItemsAsClaimed(JobsOf)

----------------------------------------------------------------------------
(* C13: the round trip through JSON text *)

\* the call has returned or raised
Finished(c) == calls[c].pc \in {"returned", "raised"}
\* caller c2 passes the JSON text of the record caller c1 passes
PassesJsonOf(c2, c1) ==
    /\ calls[c1].resume_data.t = "dict"
    /\ calls[c2].resume_data = JsonText(json_dumps(calls[c1].resume_data))

(* C13: rendering the JSON text of a valid resume gives the same document   *)
(* as rendering the decoded resume: after the decode step both calls hold   *)
(* the same value, and both return, with equal streams.                     *)
C13_RoundTrip ==
    \A c1, c2 \in Callers :
        PassesJsonOf(c2, c1) =>
            /\ (calls[c1].pc # "start" /\ calls[c2].pc # "start") =>
                  calls[c2].data = calls[c1].data
            /\ Finished(c1) => calls[c1].pc = "returned"
            /\ Finished(c2) => calls[c2].pc = "returned"
            /\ (Finished(c1) /\ Finished(c2)) => calls[c2].ret = calls[c1].ret

\* the mapping {C, A, B} with skill_order [B, D], rendered from both forms:
\* one data row, B, in both streams
C13_Witness ==
    /\ PassesJsonOf("second", "first")
    /\ calls["first"].pc = "returned"
    /\ calls["second"].pc = "returned"
    /\ calls["first"].resume_data.val[K_technical_skills].keys
         = <<(<<"C">>), (<<"A">>), (<<"B">>)>>
    /\ HasKey(calls["first"].resume_data, K_skill_order)
    /\ Len(calls["second"].ret.body[8].rows) = 2
    /\ calls["second"].ret.body[8].rows[2][1].text = <<"B">>
    /\ calls["second"].ret = calls["first"].ret

----------------------------------------------------------------------------
(* C14: determinism *)

\* what a caller sees of a finished call: whether it returned, what, or what it raised
Outcome(c) == [pc |-> calls[c].pc, ret |-> calls[c].ret, exc |-> calls[c].exc]

----------------------------------------------------------------------------
(* C15: two requests at once *)

\* what a request is answered, and what its client downloads, when no other
\* request is served
AloneResponse(r) ==
    LET req == requests[r]
        rendered == create_resume_document(req.resume_data)
    IN  IF req.route = "/generate"
        THEN IF rendered.exc = NoExc
             THEN Success(TempFileName(req.resume_data, ".docx"))
             ELSE Error(rendered.exc)
        ELSE IF req.converter = "absent"
             THEN Error(Message("PDF conversion requires docx2pdf module"))
             ELSE IF rendered.exc # NoExc THEN Error(rendered.exc)
             ELSE IF req.converter = "fails" THEN Error(Message("Failed to convert to PDF"))
             ELSE Success(TempFileName(req.resume_data, ".pdf"))
AloneDownload(r) ==
    LET docx == Saved(create_resume_document(requests[r].resume_data).blocks)
    IN  IF requests[r].route = "/generate" THEN docx ELSE Pdf(docx)

(* C15: under every interleaving of two requests for different inputs, each *)
(* request is answered as it would be alone and its client downloads the    *)
(* document (or PDF) of its own input, also when both inputs carry the same *)
(* contact name and so the same temp_<name> file names.                     *)
C15_RequestsIndependent ==
    requests["one"].resume_data # requests["two"].resume_data =>
        \A r \in Requesters :
            /\ requests[r].response # NoResponse =>
                  requests[r].response = AloneResponse(r)
            /\ requests[r].download # NoDownload =>
                  requests[r].download = AloneDownload(r)

----------------------------------------------------------------------------
(* C16: failures reach the caller *)

\* the error of each argument _generate_document fails on
ErrorOf(arg) ==
    CASE arg = JsonText(Malformed) -> InvalidJSON
      [] arg = NoContactResume -> MissingContact
      [] arg = None -> TypeError(None)
      [] arg = NoTitleResume -> KeyError(K_title)
      [] OTHER -> NoExc
\* the call wrote a file: the one named to create_resume_document, or a temporary one
WroteFile(c) == Exists(files, FileNameOf(c)) \/ calls[c].temp # ""

(* C16: when decoding, the contact check or a field access fails, every    *)
(* method ends by raising that error: create_resume_document_stream returns *)
(* no stream, create_resume_document writes no file, and create_pdf_stream  *)
(* raises the same error, returning neither a stream nor None.              *)
C16_FailuresSurface ==
    \A c \in Callers :
        ErrorOf(calls[c].resume_data) # NoExc =>
            /\ ~WroteFile(c)
            /\ calls[c].ret = NoReturn
            /\ calls[c].docx_stream = NoReturn
            /\ calls[c].pc \in {"start", "build", "raised"}
            /\ calls[c].pc = "raised" => calls[c].exc = ErrorOf(calls[c].resume_data)

\* create_pdf_stream and create_resume_document, both on the resume without a
\* title: each raised KeyError('title') after the name, the contact line and the
\* title's empty paragraph
C16_Witness ==
    /\ calls["first"].method = "create_pdf_stream"
    /\ calls["second"].method = "create_resume_document"
    /\ calls["first"].resume_data = NoTitleResume
    /\ calls["second"].resume_data = NoTitleResume
    /\ calls["first"].pc = "raised" /\ calls["second"].pc = "raised"
    /\ calls["first"].exc = KeyError(K_title)
    /\ calls["second"].exc = KeyError(K_title)
    /\ Len(heap[calls["first"].doc]) = 3
    /\ files = {}

----------------------------------------------------------------------------
(* C17: the PDF conversion is unavailable *)

\* a finished call of create_pdf_stream
PdfCall(c) == calls[c].method = "create_pdf_stream" /\ Finished(c)
\* the call rendered its DOCX: line 40 returned
Rendered(c) == calls[c].docx_stream # NoReturn
\* the conversion step could not complete: no converter, its conversion raised,
\* or its PDF could not be read
Unavailable(c) == calls[c].converter \in {"absent", "failed", "unread"}

\* None is returned exactly when the DOCX was rendered and the conversion could
\* not complete, and then nothing is raised
NoneWhenUnavailable ==
    \A c \in Callers :
        PdfCall(c) =>
            /\ calls[c].ret = None <=> (Rendered(c) /\ Unavailable(c))
            /\ calls[c].ret = None => (calls[c].pc = "returned" /\ calls[c].exc = NoExc)
            /\ calls[c].pc = "raised" => (~Rendered(c) /\ calls[c].ret = NoReturn)

(* C17 as claimed: None exactly when the DOCX was rendered and the          *)
(* conversion could not complete, apart from every error, and an absent     *)
(* converter ends differently from every other outcome.                     *)
C17_AbsentConverterTold ==
    /\ NoneWhenUnavailable
    /\ \A c1, c2 \in Callers :
          ( /\ PdfCall(c1) /\ PdfCall(c2)
            /\ calls[c1].converter = "absent"
            /\ calls[c2].converter # "absent" ) => Outcome(c1) # Outcome(c2)

(* C17 as amended: None exactly when the DOCX was rendered and the          *)
(* conversion could not complete, apart from every error and from a         *)
(* returned PDF; an absent converter and a conversion that raised end the   *)
(* same way, with None.                                                     *)
C17_NoPdfValue ==
    /\ NoneWhenUnavailable
    /\ \A c1, c2 \in Callers :
          (PdfCall(c1) /\ PdfCall(c2) /\ Unavailable(c1)) =>
              (Outcome(c1) = Outcome(c2) <=> Unavailable(c2))

\* two calls on TheResume: no converter for one, a conversion that raised for
\* the other, which left its temporary DOCX; both returned None
C17_Witness ==
    /\ calls["first"].method = "create_pdf_stream"
    /\ calls["second"].method = "create_pdf_stream"
    /\ calls["first"].resume_data = TheResume
    /\ calls["second"].resume_data = TheResume
    /\ calls["first"].converter = "absent"
    /\ calls["second"].converter = "failed"
    /\ calls["first"].pc = "returned" /\ calls["second"].pc = "returned"
    /\ calls["first"].ret = None /\ calls["second"].ret = None
    /\ Rendered("first") /\ Rendered("second")
    /\ Exists(files, TempPath(calls["second"].temp, ".docx"))

----------------------------------------------------------------------------
(* C18: the rows of the skills table *)

RECURSIVE CommaSeparated(_)
\* the texts of a list, each after the first preceded by a comma and a space
CommaSeparated(texts) ==
    IF Len(texts) = 0 THEN <<>>
    ELSE IF Len(texts) = 1 THEN texts[1]
    ELSE CommaSeparated(SubSeq(texts, 1, Len(texts) - 1))
         \o <<",", " ">> \o texts[Len(texts)]

\* the value technical_skills holds for a category
SkillsStored(category) == data.val[K_technical_skills].val[category]
\* the names that get a row: those of skill_order, or of the mapping when no
\* skill_order is given, that are keys of the mapping
RenderedCategories ==
    SelectSeq(IF HasKey(data, K_skill_order) THEN GivenOrder ELSE MappingKeys,
              LAMBDA c : \E i \in 1..Len(MappingKeys) : MappingKeys[i] = c)

(* C18: the first row of the skills table is the bold header 'Category' /   *)
(* 'Skills/Tools'; with technical_skills a mapping the table has one more   *)
(* row than there are rendered categories, and each data row holds the      *)
(* category name, bold, in its left cell and in its right cell the skills   *)
(* joined with ', ' in list order for a list, the str itself for a str.     *)
C18_SkillsRows ==
    SkillsBuilt =>
        /\ SkillsTable.rows[1]
             = <<[text |-> <<"Category">>, bold |-> TRUE, italic |-> FALSE, align |-> "left"],
                 [text |-> <<"Skills/Tools">>, bold |-> TRUE, italic |-> FALSE,
                  align |-> "left"]>>
        /\ HasMapping =>
              /\ Len(SkillsTable.rows) = 1 + Len(RenderedCategories)
              /\ \A i \in 1..Len(RenderedCategories) :
                    LET row == SkillsTable.rows[i + 1]
                        skills == SkillsStored(RenderedCategories[i])
                    IN  /\ row[1].text = RenderedCategories[i]
                        /\ row[1].bold
                        /\ skills.t = "list" =>
                              row[2].text =
                                CommaSeparated([j \in 1..Len(skills.items) |->
                                                  skills.items[j].s])
                        /\ skills.t = "str" => row[2].text = skills.s

\* the mapping {B, A, C} under skill_order [A, B, C]: 'x, y' for the list of A,
\* 'z' for the str of B, an empty cell for the empty list of C
C18_Witness ==
    /\ pc = "returned"
    /\ HasMapping
    /\ HasKey(data, K_skill_order)
    /\ MappingKeys = <<(<<"B">>), (<<"A">>), (<<"C">>)>>
    /\ Len(SkillsTable.rows) = 4
    /\ SkillsTable.rows[2][1].text = <<"A">>
    /\ SkillsTable.rows[2][2].text = <<"x", ",", " ", "y">>
    /\ SkillsTable.rows[3][2].text = <<"z">>
    /\ SkillsTable.rows[4][2].text = <<>>

----------------------------------------------------------------------------
(* C19: the input is not changed *)

(* C19: no step of create_resume_document_stream, create_resume_document or *)
(* create_pdf_stream changes the value its caller passed, achievements and  *)
(* technical_skills included, whether the call returns or fails, and the    *)
(* DocumentGenerator instance never holds an attribute.                     *)
C19_InputUnchanged ==
    /\ [](generator = {})
    /\ [][\A c \in Callers : calls'[c].resume_data = calls[c].resume_data]_vars

\* create_pdf_stream returned a PDF for OtherResume, whose achievement ' L<bullet>d '
\* was rendered as 'Ld', and create_resume_document wrote TheResume's file; both
\* callers hold the records they passed
C19_Witness ==
    /\ calls["first"].method = "create_pdf_stream"
    /\ calls["second"].method = "create_resume_document"
    /\ calls["first"].pc = "returned" /\ calls["second"].pc = "returned"
    /\ calls["first"].converter = "converted"
    /\ calls["first"].ret.kind = "pdf"
    /\ calls["first"].ret.of.body[12].items[1].text = <<"L", "d">>
    /\ Exists(files, FileNameOf("second"))
    /\ calls["first"].resume_data = OtherResume
    /\ calls["second"].resume_data = TheResume
    /\ generator = {}

----------------------------------------------------------------------------
(* C20: the fields that are not sanitized *)

\* the fields of the contact line are rendered as stored
ContactFieldsVerbatim ==
    /\ ContactLine[1].text = Stored(K_email)
    /\ ContactLine[3].text = Stored(K_phone)
    /\ ContactLine[5].text = Stored(K_linkedin)

\* name, title, summary, category names, skills, company, role, locations and
\* institution are rendered as stored
PlainFieldsVerbatim ==
    /\ doc[1].items[1].text = Stored(K_name)
    /\ doc[3].items[1].text = data.val[K_title].s
    /\ TextOf(doc[6]) = data.val[K_summary].s
    /\ HasMapping =>
          \A i \in 1..Len(RenderedCategories) :
              LET skills == SkillsStored(RenderedCategories[i])
                  cell == SkillsTable.rows[i + 1][2].text
              IN  /\ SkillsTable.rows[i + 1][1].text = RenderedCategories[i]
                  /\ skills.t = "str" => cell = skills.s
                  /\ skills.t = "list" =>
                        cell = CommaSeparated([j \in 1..Len(skills.items) |->
                                                 skills.items[j].s])
    /\ \A i \in 1..Len(JobsOf) :
          /\ LayoutTables[i].rows[1][1].text = JobsOf[i].val[K_company].s
          /\ LayoutTables[i].rows[2][1].text = JobsOf[i].val[K_role].s
          /\ LayoutTables[i].rows[1][2].text = JobsOf[i].val[K_location].s
    /\ LayoutTables[Len(LayoutTables)].rows[1][1].text
         = data.val[K_education].val[K_institution].s
    /\ LayoutTables[Len(LayoutTables)].rows[1][2].text
         = data.val[K_education].val[K_location].s

(* C20: every text field other than job dates, degree text and graduation   *)
(* year is rendered verbatim, character for character: name, email, phone,  *)
(* LinkedIn display text, title, summary, category names, skills, company,  *)
(* role, location and institution.                                          *)
C20_OtherFieldsVerbatim ==
    pc = "returned" => (ContactFieldsVerbatim /\ PlainFieldsVerbatim)

----------------------------------------------------------------------------
(* C21: the double-space collapse *)

RECURSIVE SpaceRun(_)
\* the number of spaces s starts with
SpaceRun(s) == IF s # <<>> /\ Head(s) = " " THEN 1 + SpaceRun(Tail(s)) ELSE 0

RECURSIVE PairsCollapsed(_)
\* s with each pair of consecutive spaces made one space: a run of n spaces
\* becomes a run of n - n \div 2
PairsCollapsed(s) ==
    IF s = <<>> THEN <<>>
    ELSE IF Head(s) = " "
         THEN LET n == SpaceRun(s)
              IN  [i \in 1..(n - (n \div 2)) |-> " "]
                  \o PairsCollapsed(SubSeq(s, n + 1, Len(s)))
         ELSE <<Head(s)>> \o PairsCollapsed(Tail(s))

\* the dash replacement of the graduation year: U+00E2 alone
HyphenForACirc(s) == [i \in 1..Len(s) |-> IF s[i] = ACirc THEN "-" ELSE s[i]]

(* C21: the rendered dates of a job and the rendered graduation year are the *)
(* stored text with its dashes replaced and then each pair of consecutive   *)
(* spaces made one space; a run of exactly two spaces renders as one space. *)
C21_DoubleSpaceCollapsed ==
    pc = "returned" =>
        /\ \A i \in 1..Len(JobsOf) :
              RenderedDates(i) = PairsCollapsed(HyphenForDash(StoredDates(i)))
        /\ RenderedYear = GRADUATION \o PairsCollapsed(HyphenForACirc(StoredYear))

\* 'a<two spaces>a' rendered as 'a a' in both fields
C21_Witness ==
    /\ pc = "returned"
    /\ Len(JobsOf) = 1
    /\ StoredDates(1) = <<"a", " ", " ", "a">>
    /\ RenderedDates(1) = <<"a", " ", "a">>
    /\ StoredYear = <<"a", " ", " ", "a">>
    /\ RenderedYear = GRADUATION \o <<"a", " ", "a">>

----------------------------------------------------------------------------
(* C22: the mis-decoded apostrophe of the degree *)

\* a right single quotation mark (E2 80 99) read as cp1252
MisDecodedApostrophe == <<ACirc, Euro, TradeMark>>
\* every U+00E2 of s starts a mis-decoded apostrophe
OnlyApostropheSequences(s) ==
    \A i \in 1..Len(s) :
        s[i] = ACirc => /\ i + 2 <= Len(s)
                        /\ SubSeq(s, i, i + 2) = MisDecodedApostrophe
\* the characters of a mis-decoded apostrophe
Residue == {ACirc, Euro, TradeMark}

(* C22: a degree whose mis-decoded characters are those of mis-decoded      *)
(* apostrophes is rendered with one apostrophe for each such sequence and   *)
(* with none of the characters of the sequence left.                        *)
C22_ApostropheSequenceReplaced ==
    (pc = "returned" /\ OnlyApostropheSequences(StoredDegree)) =>
        /\ RenderedDegree = Replace(StoredDegree, MisDecodedApostrophe, <<"'">>)
        /\ \A n \in 1..Len(RenderedDegree) : RenderedDegree[n] \notin Residue

----------------------------------------------------------------------------
(* C23: sanitizing a sanitized text *)

\* s holds n spaces in a row
HasSpaceRun(s, n) ==
    \E i \in 1..(Len(s) - n + 1) : \A j \in 0..(n - 1) : s[i + j] = " "
\* s holds no dash artifact
NoDashArtifact(s) == \A n \in 1..Len(s) : s[n] \notin DashArtifacts
\* the year of the rendered education line, after 'Graduation: '
RenderedYearText == SubSeq(RenderedYear, Len(GRADUATION) + 1, Len(RenderedYear))

(* C23 as claimed: sanitizing the rendered dates of a job once more changes *)
(* nothing, whatever the stored text, and the rendered dates hold no two    *)
(* consecutive spaces and no dash artifact.                                 *)
C23_SanitizeDatesIdempotent ==
    pc = "returned" =>
        \A i \in 1..Len(JobsOf) :
            /\ SanitizeDates(RenderedDates(i)) = RenderedDates(i)
            /\ ~HasSpaceRun(RenderedDates(i), 2)
            /\ NoDashArtifact(RenderedDates(i))

(* C23 as amended: the rendered dates hold no dash artifact; when the       *)
(* stored text holds no three spaces in a row, the rendered text holds no   *)
(* two spaces in a row and sanitizing it once more changes nothing, for the *)
(* dates of a job and for the graduation year alike; when the stored text   *)
(* holds three spaces in a row, the rendered text still holds two and       *)
(* sanitizing it once more changes it.                                      *)
C23_IdempotentWithoutLongRuns ==
    pc = "returned" =>
        /\ \A i \in 1..Len(JobsOf) :
              /\ NoDashArtifact(RenderedDates(i))
              /\ ~HasSpaceRun(StoredDates(i), 3) =>
                    /\ ~HasSpaceRun(RenderedDates(i), 2)
                    /\ SanitizeDates(RenderedDates(i)) = RenderedDates(i)
              /\ HasSpaceRun(StoredDates(i), 3) =>
                    /\ HasSpaceRun(RenderedDates(i), 2)
                    /\ SanitizeDates(RenderedDates(i)) # RenderedDates(i)
        /\ ~HasSpaceRun(StoredYear, 3) =>
              /\ ~HasSpaceRun(RenderedYearText, 2)
              /\ SanitizeGraduationYear(RenderedYearText) = RenderedYearText
        /\ HasSpaceRun(StoredYear, 3) =>
              SanitizeGraduationYear(RenderedYearText) # RenderedYearText

\* '<two spaces><en-dash>a' rendered as '<space>-a', which sanitizes to itself
C23_Witness ==
    /\ pc = "returned"
    /\ Len(JobsOf) = 1
    /\ StoredDates(1) = <<" ", " ", EnDash, "a">>
    /\ RenderedDates(1) = <<" ", "-", "a">>
    /\ SanitizeDates(RenderedDates(1)) = RenderedDates(1)

----------------------------------------------------------------------------
(* C24: a category in more than one row *)

(* C24: no category name is in more than one data row of the skills table,  *)
(* whatever the mapping and whatever skill_order, a skill_order that lists  *)
(* a category more than once included.                                      *)
C24_NoCategoryTwice ==
    (SkillsBuilt /\ HasMapping) =>
        \A i, j \in 1..Len(DataRowNames) : i # j => DataRowNames[i] # DataRowNames[j]

----------------------------------------------------------------------------
(* C25: the temporary files of create_pdf_stream *)

\* the temporary files the call created that are still there
TempFilesOf(c) ==
    {f \in files : /\ calls[c].temp # ""
                   /\ f.path \in {TempPath(calls[c].temp, ".docx"),
                                  TempPath(calls[c].temp, ".pdf")}}

(* C25: when create_pdf_stream has returned, with a PDF or with None, none  *)
(* of the temporary files it created is left.                               *)
C25_NoTempFileLeft ==
    \A c \in Callers : PdfCall(c) => TempFilesOf(c) = {}

----------------------------------------------------------------------------
(* C26: what parse_resume returns *)

\* parse_resume has returned
ParseReturned == parser.pc \in {"returned", "responded"}
\* v is a record that holds the five required sections
HasRequiredSections(v) ==
    /\ IsDict(v)
    /\ \A i \in 1..Len(required_sections) : HasKey(v, <<required_sections[i]>>)

(* C26: a value parse_resume returns that is not None holds all five         *)
(* required sections, on the direct path and after the repair of a first    *)
(* decode failure alike; on every failure parse_resume returns None; either *)
(* way exactly one message went to the model.                               *)
C26_SectionsOrNone ==
    ParseReturned =>
        /\ model_calls = 1
        /\ parser.ret # None => HasRequiredSections(parser.ret)

----------------------------------------------------------------------------
(* C27: technical_skills that is no mapping *)

\* technical_skills is present and is no mapping
NotAMapping ==
    /\ IsDict(data)
    /\ HasKey(data, K_technical_skills)
    /\ ~IsDict(data.val[K_technical_skills])

(* C27: with technical_skills present and no mapping, the skills step does  *)
(* not fail and goes on to the work experience; the skills table holds its  *)
(* header row alone and the separator follows it; a returned document holds *)
(* all its blocks in their order.                                           *)
C27_NoMappingNoRows ==
    /\ [](NotAMapping =>
            /\ SkillsBuilt => /\ SkillsTable.rows = <<SkillsHeaderRow>>
                              /\ doc[9] = Blank
            /\ pc = "returned" =>
                  Kinds(doc) = HeaderBlock \o <<"blank">> \o SummaryBlock \o SkillsBlock
                               \o <<"blank">> \o WorkBlock \o EducationBlock)
    /\ [][(pc = "skills" /\ NotAMapping) => (pc' = "work" /\ exc' = NoExc)]_vars

\* a resume whose technical_skills is a list, returned with the header row alone
C27_Witness ==
    /\ pc = "returned"
    /\ NotAMapping
    /\ data.val[K_technical_skills].t = "list"
    /\ SkillsTable.rows = <<SkillsHeaderRow>>
    /\ Kinds(doc)[10] = "Work Experience"

----------------------------------------------------------------------------
(* C28: the two generators *)

\* both have finished
BothFinished == Finished("first") /\ requests["one"].pc # "start"
\* the resume both were given
Given == requests["one"].resume_data
\* what each wrote: the class under the caller's file name, the module-level
\* function under temp_<name>.docx
ClassFile == Contents(files, FileNameOf("first"))
ModuleFile == Contents(cwd, TempFileName(Given, ".docx"))

\* skill_order is absent, or lists the keys of the mapping in the mapping's order
OrderIsMappingOrder ==
    \/ ~HasKey(Given, K_skill_order)
    \/ /\ IsDict(Given.val[K_technical_skills])
       /\ Given.val[K_skill_order].items =
            [i \in 1..Len(Given.val[K_technical_skills].keys) |->
                Str(Given.val[K_technical_skills].keys[i])]

\* a saved document with the data rows of its skills table, the eighth block, removed
WithoutDataRows(stream) ==
    [stream EXCEPT !.body = [@ EXCEPT ![8] = [@ EXCEPT !.rows = SubSeq(@, 1, 1)]]]

(* C28: on one input both generators fail alike or both write a document;   *)
(* the two documents are equal when skill_order is absent or lists the keys *)
(* of technical_skills in the mapping's order, and for every skill_order    *)
(* they are equal but for the data rows of the skills table.                *)
C28_GeneratorsAgree ==
    BothFinished =>
        /\ calls["first"].pc = "returned" <=> requests["one"].response.status = "success"
        /\ calls["first"].pc = "raised" =>
              requests["one"].response = Error(calls["first"].exc)
        /\ calls["first"].pc = "returned" =>
              /\ OrderIsMappingOrder => ClassFile = ModuleFile
              /\ WithoutDataRows(ClassFile) = WithoutDataRows(ModuleFile)

\* the mapping {C, A, B} under skill_order [C, A, B]: two equal documents of
\* three data rows
C28_Witness ==
    /\ BothFinished
    /\ calls["first"].pc = "returned"
    /\ HasKey(Given, K_skill_order)
    /\ Given.val[K_technical_skills].keys = <<(<<"C">>), (<<"A">>), (<<"B">>)>>
    /\ OrderIsMappingOrder
    /\ ClassFile = ModuleFile
    /\ Len(ModuleFile.body[8].rows) = 4

----------------------------------------------------------------------------
(* C29: what a download deletes *)

\* the files a step deletes
Deleted == {f \in cwd : ~\E g \in cwd' : g = f}
\* the step is the cleanup of request r, whose response carried f and is closed
CleansUp(r, f) ==
    /\ requests[r].pc = "remove"
    /\ requests'[r].pc = "idle"
    /\ f.path = InCwd(requests[r].filename)
    /\ requests[r].response = f.contents

(* C29: a step deletes at most one file, whose name starts with 'temp_', and *)
(* it is the cleanup of a request whose response carried that file and has  *)
(* been closed; no file comes back, so none is deleted twice; a file whose  *)
(* name lacks the prefix stays whatever is asked for; a request whose send  *)
(* failed is back to idle and registers no cleanup.                         *)
C29_OnlyTempFilesDeleted ==
    /\ [][/\ Cardinality(Deleted) <= 1
          /\ \A g \in cwd' : g \in cwd
          /\ \A f \in Deleted :
                /\ StartsWith(f.path.name, TEMP_PREFIX)
                /\ \E r \in Requesters : CleansUp(r, f)]_vars
    /\ [](\A name \in NamesThere :
            ~StartsWith(name, TEMP_PREFIX) => Exists(cwd, InCwd(name)))
    /\ [](\A r \in Requesters :
            requests[r].pc \in {"sending", "remove"} =>
                requests[r].response \notin
                    {NoResponse, Error(Message("No such file"))})

\* both clients were sent temp_A, one cleanup has deleted it and the other is
\* about to remove it again; keep was sent before and is still there
C29_Witness ==
    /\ ~Exists(cwd, InCwd(TEMP_PREFIX \o <<"A">>))
    /\ Exists(cwd, InCwd(<<"k", "e", "e", "p">>))
    /\ requests["one"].pc = "remove"
    /\ requests["one"].filename = TEMP_PREFIX \o <<"A">>
    /\ requests["two"].pc = "idle"
    /\ requests["two"].filename = TEMP_PREFIX \o <<"A">>

====
